---- MODULE Spec2Model ----
(***************************************************************************)
(* The stateful streaming analytics of buzzline-03-schroder.               *)
(*                                                                         *)
(*   csv consumer  (consumers/csv_consumer_schroder.py): attendance events *)
(*     -> rolling window per course, daily counters per (course, date),    *)
(*        late counter per (course, date), absence log per student.        *)
(*   json consumer (consumers/json_consumer_schroder.py): nutrition events *)
(*     -> rolling window of meals, daily totals, PROTEIN_GOAL latch.       *)
(*                                                                         *)
(* Representation.                                                         *)
(*   - A Python str is a tuple of one-character strings, so that strip()   *)
(*     and lower() are computed; an ISO-8601 timestamp string is kept in   *)
(*     parsed form [wall, suffix] (its date-time part in hours, and its    *)
(*     zone suffix), and every other string fails datetime.fromisoformat.  *)
(*   - Time is counted in hours.  Hour 0 is 2025-10-26T00:00; a UTC        *)
(*     instant u is u hours after 2025-10-26T00:00Z.  local_dt is the      *)
(*     wall-clock reading in America/New_York: Python compares two aware   *)
(*     datetimes with the same tzinfo by their wall-clock fields and       *)
(*     subtracts a timedelta on the wall clock, so the wall-clock hour is  *)
(*     all of local_dt that the program reads.                             *)
(*   - A dict (defaultdict) is a function whose DOMAIN is its key set.     *)
(*   - A rate attended/total is the pair <<attended, total>>; comparing it *)
(*     with the threshold 0.85 is done by cross-multiplication.            *)
(***************************************************************************)
EXTENDS Integers, Sequences, FiniteSets, TLC

VARIABLES
    course_windows,          \* csv: course -> deque(maxlen=N) of statuses
    daily_course_counts,     \* csv: <<course, local_date>> -> counts
    late_per_course_day,     \* csv: <<course, local_date>> -> late count
    student_absences,        \* csv: student -> deque of local datetimes
    att_in,                  \* csv: the messages handed to process_message, in order
    att_out,                 \* csv: per message, what process_message logged
    recent,                  \* json: deque(maxlen=8) of meals
    daily_totals,            \* json: local_date -> totals
    protein_goal_announced,  \* json: local_date -> bool
    nut_in,                  \* json: the messages handed to process_message, in order
    nut_out,                 \* json: per message, what process_message logged
    csv_pc,                  \* csv: position of main / process_message
    csv_frame,               \* csv: locals of the process_message call in progress
    json_pc,                 \* json: position of main / process_message
    json_frame,              \* json: locals of the process_message call in progress
    closed                   \* number of consumer.close() calls, per consumer

csvStores == <<course_windows, daily_course_counts, late_per_course_day, student_absences>>
csvVars == <<course_windows, daily_course_counts, late_per_course_day, student_absences,
             att_in, att_out>>
jsonStores == <<recent, daily_totals, protein_goal_announced>>
jsonVars == <<recent, daily_totals, protein_goal_announced, nut_in, nut_out>>
mainVars == <<csv_pc, csv_frame, json_pc, json_frame, closed>>
vars == <<course_windows, daily_course_counts, late_per_course_day, student_absences,
          att_in, att_out, recent, daily_totals, protein_goal_announced, nut_in, nut_out,
          csv_pc, csv_frame, json_pc, json_frame, closed>>

(***************************************************************************)
(* Python values                                                           *)
(***************************************************************************)

\* JSON null / Python None
None == [t |-> "null"]

\* a Python str that is not an ISO-8601 timestamp
Str(chars) == [t |-> "str", iso |-> FALSE, s |-> chars]

\* a Python str holding an ISO-8601 timestamp: date-time part and zone suffix
Iso(wall, suffix) == [t |-> "str", iso |-> TRUE, wall |-> wall, suffix |-> suffix]

\* a JSON number
Num(n) == [t |-> "num", n |-> n]

\* a JSON boolean
Bool(b) == [t |-> "bool", b |-> b]

\* Python truthiness, as used by `x or ""` and `not x`
Truthy(v) ==
    CASE v.t = "null" -> FALSE
      [] v.t = "str"  -> IF v.iso THEN TRUE ELSE v.s # <<>>
      [] v.t = "num"  -> v.n # 0
      [] v.t = "bool" -> v.b

Whitespace == {" ", "\t", "\n"}

RECURSIVE lstrip(_)
lstrip(s) == IF s # <<>> /\ Head(s) \in Whitespace THEN lstrip(Tail(s)) ELSE s

RECURSIVE rstrip(_)
rstrip(s) ==
    IF s # <<>> /\ s[Len(s)] \in Whitespace THEN rstrip(SubSeq(s, 1, Len(s) - 1)) ELSE s

\* str.strip()
strip(s) == rstrip(lstrip(s))

UpperCase == <<"A", "B", "C", "D", "E", "F", "G", "H", "I", "J", "K", "L", "M",
               "N", "O", "P", "Q", "R", "S", "T", "U", "V", "W", "X", "Y", "Z">>

LowerCase == <<"a", "b", "c", "d", "e", "f", "g", "h", "i", "j", "k", "l", "m",
               "n", "o", "p", "q", "r", "s", "t", "u", "v", "w", "x", "y", "z">>

\* the lower-case letter of each upper-case letter
ToLower ==
    [c \in {UpperCase[k] : k \in 1..26} |->
        LowerCase[CHOOSE k \in 1..26 : UpperCase[k] = c]]

\* str.lower()
lower(s) == [i \in 1..Len(s) |-> IF s[i] \in DOMAIN ToLower THEN ToLower[s[i]] ELSE s[i]]

\* dict.get(key) of a decoded JSON object: None when the key is missing
rec_get(rec, key) == IF key \in DOMAIN rec THEN rec[key] ELSE None

\* d[k] of a defaultdict whose factory yields dflt (the read alone)
Lookup(d, k, dflt) == IF k \in DOMAIN d THEN d[k] ELSE dflt

\* d[k] = v
Store(d, k, v) == [x \in (DOMAIN d) \cup {k} |-> IF x = k THEN v ELSE d[x]]

EmptyDict == [x \in {} |-> 0]

(***************************************************************************)
(* Time                                                                    *)
(***************************************************************************)

\* the UTC offset, in hours, that an ISO suffix states
SuffixOffset(suffix) ==
    CASE suffix = "+00:00" -> 0
      [] suffix = "-04:00" -> 0 - 4
      [] suffix = "-05:00" -> 0 - 5
      [] suffix = "+02:00" -> 2

\* America/New_York: daylight time (UTC-4) until 2025-11-02T06:00Z, which is
\* hour 7 * 24 + 6 of the model's clock, and standard time (UTC-5) after it
astimezone(utc) == IF utc < 7 * 24 + 6 THEN utc - 4 ELSE utc - 5

\* datetime.fromisoformat(ts): the UTC instant of an ISO string with an offset
fromisoformat(ts) == ts.wall - SuffixOffset(ts.suffix)

\* mutant of parse_ts_to_local: the trailing Z is cut off and nothing put in
\* its place, the date-time is read as local time
parse_ts_to_local_Z_cut(ts) ==
    IF ts.suffix = "Z" THEN ts.wall ELSE astimezone(fromisoformat(ts))

\* parse_ts_to_local (csv, lines 77-83): a trailing Z is replaced by +00:00
\* before datetime.fromisoformat
parse_ts_to_local(ts) ==
    LET ts2 == IF ts.suffix = "Z" THEN [ts EXCEPT !.suffix = "+00:00"] ELSE ts
    IN  astimezone(fromisoformat(ts2))

\* parse_ts_utc_to_local (json, lines 61-69): the same statements
parse_ts_utc_to_local(ts) ==
    LET ts2 == IF ts.suffix = "Z" THEN [ts EXCEPT !.suffix = "+00:00"] ELSE ts
        dt_utc == fromisoformat(ts2)
    IN  astimezone(dt_utc)

\* whether parse_ts_to_local(ts) raises: ts is not a str (AttributeError on
\* endswith) or not an ISO string (ValueError in fromisoformat)
parse_ts_raises(ts) == ts.t # "str" \/ ~ts.iso

\* local_dt.date(), as the number of the local calendar day
date(local_dt) == local_dt \div 24

\* local_dt.hour
hour(local_dt) == local_dt % 24

\* local_dt - timedelta(days=n), on the wall clock
minus_days(local_dt, n) == local_dt - 24 * n

(***************************************************************************)
(* csv consumer: configuration                                             *)
(***************************************************************************)

ROLLING_WINDOW_SIZE == 10

\* ATTENDANCE_RATE_THRESHOLD = 0.85, in percent
ATTENDANCE_RATE_THRESHOLD == 85

CHRONIC_WINDOW_DAYS == 7

CHRONIC_ABSENCES_THRESHOLD == 2

LATE_BURST_THRESHOLD == 3

present == <<"p", "r", "e", "s", "e", "n", "t">>

late == <<"l", "a", "t", "e">>

absent == <<"a", "b", "s", "e", "n", "t">>

total == <<"t", "o", "t", "a", "l">>

\* the factory of daily_course_counts
ZeroCounts == [k \in {present, late, absent, total} |-> 0]

(***************************************************************************)
(* csv consumer: helpers                                                   *)
(***************************************************************************)

\* mutant of deque_append: the oldest entry leaves one entry too early
deque_append_evicts_early(dq, x, maxlen) ==
    IF Len(dq) >= maxlen - 1 THEN Append(Tail(dq), x) ELSE Append(dq, x)

\* mutant of deque_append: a full deque gives up its newest entry
deque_append_evicts_newest(dq, x, maxlen) ==
    IF Len(dq) >= maxlen THEN Append(SubSeq(dq, 1, Len(dq) - 1), x) ELSE Append(dq, x)

\* deque(maxlen=n).append(x): the oldest entry leaves when the deque is full
deque_append(dq, x, maxlen) ==
    IF Len(dq) >= maxlen THEN Append(Tail(dq), x) ELSE Append(dq, x)

RECURSIVE count_attended(_)
count_attended(dq) ==
    IF dq = <<>> THEN 0
    ELSE (IF Head(dq) \in {present, late} THEN 1 ELSE 0) + count_attended(Tail(dq))

attendance_rate_from_deque(dq) ==
    IF dq = <<>> THEN <<1, 1>> ELSE <<count_attended(dq), Len(dq)>>

attendance_rate_daily(counts) ==
    IF counts[total] = 0 THEN <<1, 1>>
    ELSE <<counts[present] + counts[late], counts[total]>>

\* rate < ATTENDANCE_RATE_THRESHOLD
rate_below_threshold(rate) == rate[1] * 100 < ATTENDANCE_RATE_THRESHOLD * rate[2]

\* mutant of prune_old_absences: `<=` for `<`, the boundary instant is pruned
RECURSIVE prune_old_absences_at_cutoff(_, _)
prune_old_absences_at_cutoff(abs_q, now_local) ==
    LET cutoff == minus_days(now_local, CHRONIC_WINDOW_DAYS)
    IN  IF abs_q # <<>> /\ abs_q[1] <= cutoff
        THEN prune_old_absences_at_cutoff(Tail(abs_q), now_local)
        ELSE abs_q

\* mutant of prune_old_absences: `if` for `while`, one entry pruned at most
prune_old_absences_once(abs_q, now_local) ==
    LET cutoff == minus_days(now_local, CHRONIC_WINDOW_DAYS)
    IN  IF abs_q # <<>> /\ abs_q[1] < cutoff THEN Tail(abs_q) ELSE abs_q

RECURSIVE prune_old_absences(_, _)
prune_old_absences(abs_q, now_local) ==
    LET cutoff == minus_days(now_local, CHRONIC_WINDOW_DAYS)
    IN  IF abs_q # <<>> /\ abs_q[1] < cutoff
        THEN prune_old_absences(Tail(abs_q), now_local)
        ELSE abs_q

(***************************************************************************)
(* csv consumer: process_message                                           *)
(***************************************************************************)

\* `(rec.get(key) or "").strip()` raises AttributeError on a truthy non-str
field_raises(rec, key) == Truthy(rec_get(rec, key)) /\ rec_get(rec, key).t # "str"

\* `(rec.get(key) or "").strip()`; an ISO string is its own strip()
field_strip(rec, key) ==
    LET v == rec_get(rec, key)
    IN  IF ~Truthy(v) THEN <<>> ELSE IF v.iso THEN <<"I", "S", "O">> ELSE strip(v.s)



\* mutant of csv_invalid: the student is not checked
csv_invalid_student_unchecked(ts, student, course, status) ==
    ~Truthy(ts) \/ course = <<>> \/ status \notin {present, late, absent}

\* line 117: the condition under which the record is rejected
csv_invalid(ts, student, course, status) ==
    ~Truthy(ts) \/ course = <<>> \/ student = <<>>
        \/ status \notin {present, late, absent}

\* lines 108-123: decoding, validation and time normalisation.  diag is "ok"
\* when the event goes on to the stores, "invalid" when line 117 rejects it,
\* "raised" (with the exception's class) when a statement raises.
csv_parse(message) ==
    IF message.json = "invalid" THEN [diag |-> "raised", exc |-> "JSONDecodeError"]
    ELSE IF message.json # "object" THEN [diag |-> "raised", exc |-> "AttributeError"]
    ELSE LET rec == message.obj
             ts == rec_get(rec, "ts")
         IN  IF field_raises(rec, "student") \/ field_raises(rec, "course")
                    \/ field_raises(rec, "status")
             THEN [diag |-> "raised", exc |-> "AttributeError"]
             ELSE LET student == field_strip(rec, "student")
                      course == field_strip(rec, "course")
                      status == lower(field_strip(rec, "status"))
                  IN  IF csv_invalid(ts, student, course, status)
                      THEN [diag |-> "invalid"]
                      ELSE IF parse_ts_raises(ts)
                      THEN [diag |-> "raised",
                            exc |-> IF ts.t # "str" THEN "AttributeError" ELSE "ValueError"]
                      ELSE [diag |-> "ok", student |-> student, course |-> course,
                            status |-> status,
                            local_dt |-> parse_ts_to_local(ts),
                            local_date |-> date(parse_ts_to_local(ts))]

\* mutant of csv_catches: without the `except Exception` clause
csv_catches_json_only(exc) == exc = "JSONDecodeError"

\* lines 174-177: `except json.JSONDecodeError` and `except Exception` catch
\* every exception class that process_message can raise on a payload;
\* KeyboardInterrupt is a BaseException and passes through
csv_catches(exc) == exc \in {"JSONDecodeError", "AttributeError", "ValueError", "TypeError"}

\* lines 129-130: cw = course_windows[course]; cw.append(status)
csv_window_update(cw_map, ev) ==
    Store(cw_map, ev.course,
          deque_append(Lookup(cw_map, ev.course, <<>>), ev.status, ROLLING_WINDOW_SIZE))

\* mutant of csv_daily_total: the counters of a new date start from those of
\* another date of the course
csv_daily_total_carried(dcc, ev) ==
    LET key_cd == <<ev.course, ev.local_date>>
        others == {k \in DOMAIN dcc : k[1] = ev.course /\ k # key_cd}
        start == IF others = {} THEN ZeroCounts ELSE dcc[CHOOSE k \in others : TRUE]
    IN  Store(dcc, key_cd, [Lookup(dcc, key_cd, start) EXCEPT ![total] = @ + 1])

\* line 134: daily_course_counts[key_cd]["total"] += 1
csv_daily_total(dcc, ev) ==
    LET key_cd == <<ev.course, ev.local_date>>
    IN  Store(dcc, key_cd, [Lookup(dcc, key_cd, ZeroCounts) EXCEPT ![total] = @ + 1])

\* mutant of csv_daily_status: the counter of the status is not incremented
csv_daily_status_skipped(dcc, ev) == dcc

\* line 135: daily_course_counts[key_cd][status] += 1
csv_daily_status(dcc, ev) ==
    LET key_cd == <<ev.course, ev.local_date>>
    IN  Store(dcc, key_cd, [Lookup(dcc, key_cd, ZeroCounts) EXCEPT ![ev.status] = @ + 1])

\* lines 133-135: the daily counters of (course, local_date)
csv_daily_update(dcc, ev) == csv_daily_status(csv_daily_total(dcc, ev), ev)

\* mutant of csv_late_update: the late counter is kept per course, a late
\* event counts on every date of the course
csv_late_update_every_date(lpcd, ev) ==
    LET key_cd == <<ev.course, ev.local_date>>
    IN  IF ev.status = late
        THEN [k \in (DOMAIN lpcd) \cup {key_cd} |->
                IF k[1] = ev.course THEN Lookup(lpcd, k, 0) + 1 ELSE lpcd[k]]
        ELSE lpcd

\* mutant of csv_late_update: the counter counts every event, whatever its
\* status
csv_late_update_any_status(lpcd, ev) ==
    LET key_cd == <<ev.course, ev.local_date>>
    IN  Store(lpcd, key_cd, Lookup(lpcd, key_cd, 0) + 1)

\* lines 155-156: the late counter of (course, local_date)
csv_late_update(lpcd, ev) ==
    LET key_cd == <<ev.course, ev.local_date>>
    IN  IF ev.status = late THEN Store(lpcd, key_cd, Lookup(lpcd, key_cd, 0) + 1)
        ELSE lpcd

\* mutant of csv_absence_append: one log for all students, an absence is
\* appended to the log of every student that has one
csv_absence_append_shared(sa, ev) ==
    IF ev.status = absent
    THEN [st \in (DOMAIN sa) \cup {ev.student} |->
            Append(Lookup(sa, st, <<>>), ev.local_dt)]
    ELSE sa

\* lines 164-166: abs_q = student_absences[student]; abs_q.append(local_dt)
csv_absence_append(sa, ev) ==
    IF ev.status = absent
    THEN Store(sa, ev.student, Append(Lookup(sa, ev.student, <<>>), ev.local_dt))
    ELSE sa

\* line 167: prune_old_absences(abs_q, local_dt)
csv_absence_prune(sa, ev) ==
    IF ev.status = absent
    THEN Store(sa, ev.student, prune_old_absences(sa[ev.student], ev.local_dt))
    ELSE sa

\* lines 164-167: the absence log of the student
csv_absence_update(sa, ev) == csv_absence_prune(csv_absence_append(sa, ev), ev)

\* mutant of csv_window_alert: the rule does not wait for a full window
csv_window_alert_any_length(cw_map, ev) ==
    LET cw == cw_map[ev.course]
    IN  IF rate_below_threshold(attendance_rate_from_deque(cw))
        THEN <<[rule |-> "ATTENDANCE_DROP_CLASS (window)", course |-> ev.course,
                rate |-> attendance_rate_from_deque(cw)]>>
        ELSE <<>>

\* lines 138-144: the window rule, on the stores after their update
csv_window_alert(cw_map, ev) ==
    LET cw == cw_map[ev.course]
    IN  IF Len(cw) = ROLLING_WINDOW_SIZE
           /\ rate_below_threshold(attendance_rate_from_deque(cw))
        THEN <<[rule |-> "ATTENDANCE_DROP_CLASS (window)", course |-> ev.course,
                rate |-> attendance_rate_from_deque(cw)]>>
        ELSE <<>>

\* mutant of csv_daily_alert: the alert is announced only when the rate falls
\* below the threshold, not again while it stays below
csv_daily_alert_on_crossing(dcc, ev) ==
    LET counts == dcc[<<ev.course, ev.local_date>>]
        before == [counts EXCEPT ![total] = @ - 1, ![ev.status] = @ - 1]
        daily_rate == attendance_rate_daily(counts)
    IN  IF rate_below_threshold(daily_rate)
           /\ ~rate_below_threshold(attendance_rate_daily(before))
        THEN <<[rule |-> "ATTENDANCE_DROP_CLASS (daily)", course |-> ev.course,
                date |-> ev.local_date, rate |-> daily_rate]>>
        ELSE <<>>

\* lines 147-152: the daily rule
csv_daily_alert(dcc, ev) ==
    LET daily_rate == attendance_rate_daily(dcc[<<ev.course, ev.local_date>>])
    IN  IF rate_below_threshold(daily_rate)
        THEN <<[rule |-> "ATTENDANCE_DROP_CLASS (daily)", course |-> ev.course,
                date |-> ev.local_date, rate |-> daily_rate]>>
        ELSE <<>>

\* mutant of csv_late_alert: `>` for `>=`
csv_late_alert_above(lpcd, ev) ==
    IF ev.status = late /\ lpcd[<<ev.course, ev.local_date>>] > LATE_BURST_THRESHOLD
    THEN <<[rule |-> "LATE_BURST_CLASS", course |-> ev.course, date |-> ev.local_date,
            lates |-> lpcd[<<ev.course, ev.local_date>>]]>>
    ELSE <<>>

\* lines 155-161: the late-burst rule
csv_late_alert(lpcd, ev) ==
    IF ev.status = late /\ lpcd[<<ev.course, ev.local_date>>] >= LATE_BURST_THRESHOLD
    THEN <<[rule |-> "LATE_BURST_CLASS", course |-> ev.course, date |-> ev.local_date,
            lates |-> lpcd[<<ev.course, ev.local_date>>]]>>
    ELSE <<>>

\* lines 164-172: the chronic-absence rule
csv_chronic_alert(sa, ev) ==
    IF ev.status = absent /\ Len(sa[ev.student]) >= CHRONIC_ABSENCES_THRESHOLD
    THEN <<[rule |-> "CHRONIC_ABSENCE_STUDENT", student |-> ev.student,
            absences |-> Len(sa[ev.student])]>>
    ELSE <<>>

\* lines 128-172 on the stores S for the validated event ev: the stores after
\* the call and the alerts in the order of their emission
csv_apply(S, ev) ==
    LET cw == csv_window_update(S.course_windows, ev)
        dcc == csv_daily_update(S.daily_course_counts, ev)
        lpcd == csv_late_update(S.late_per_course_day, ev)
        sa == csv_absence_update(S.student_absences, ev)
    IN  [course_windows |-> cw, daily_course_counts |-> dcc,
         late_per_course_day |-> lpcd, student_absences |-> sa,
         alerts |-> csv_window_alert(cw, ev) \o csv_daily_alert(dcc, ev)
                    \o csv_late_alert(lpcd, ev) \o csv_chronic_alert(sa, ev)]

\* lines 107-177 once the payload is parsed: the stores after the call (keep
\* when the event is dropped, those of applied otherwise), what the call logged
\* (the diagnostic, the summary of line 126 and the alerts), and the exception
\* that leaves the call ("none" if none)
csv_outcome(keep, ev, applied) ==
    IF ev.diag = "ok"
    THEN [stores |-> [x \in DOMAIN keep |-> applied[x]],
          out |-> [diag |-> "ok", event |-> ev, alerts |-> applied.alerts],
          escapes |-> "none"]
    ELSE IF ev.diag = "invalid"
    THEN [stores |-> keep, out |-> [diag |-> "invalid", event |-> None, alerts |-> <<>>],
          escapes |-> "none"]
    ELSE IF csv_catches(ev.exc)
    THEN [stores |-> keep,
          out |-> [diag |-> IF ev.exc = "JSONDecodeError" THEN "json_error" ELSE "error",
                   event |-> None, alerts |-> <<>>],
          escapes |-> "none"]
    ELSE [stores |-> keep, out |-> [diag |-> "none", event |-> None, alerts |-> <<>>],
          escapes |-> ev.exc]

\* process_message after line 123, on the stores S
csv_process_parsed(S, ev) ==
    csv_outcome(S, ev, IF ev.diag = "ok" THEN csv_apply(S, ev) ELSE S)

\* process_message(message), lines 107-177, on the stores S
csv_process_message(S, message) == csv_process_parsed(S, csv_parse(message))

\* the module-level stores of the csv consumer
CsvStores ==
    [course_windows |-> course_windows, daily_course_counts |-> daily_course_counts,
     late_per_course_day |-> late_per_course_day, student_absences |-> student_absences]

\* main, lines 197-209: one iteration of `for msg in consumer`, with the
\* handlers of an exception that leaves process_message
csv_consume(message) ==
    /\ csv_pc = "poll"
    /\ \E r \in {csv_process_message(CsvStores, message)} :
        /\ course_windows' = r.stores.course_windows
        /\ daily_course_counts' = r.stores.daily_course_counts
        /\ late_per_course_day' = r.stores.late_per_course_day
        /\ student_absences' = r.stores.student_absences
        /\ att_in' = Append(att_in, message)
        /\ att_out' = Append(att_out, r.out)
        /\ IF r.escapes = "none"
           THEN UNCHANGED <<csv_pc, closed>>
           ELSE /\ csv_pc' = "closed"
                /\ closed' = [closed EXCEPT !["csv"] = @ + 1]
    /\ UNCHANGED <<csv_frame, json_pc, json_frame>>

(***************************************************************************)
(* json consumer: configuration and helpers                                *)
(***************************************************************************)

NUTRITION_ROLLING_WINDOW_SIZE == 8

PROTEIN_GOAL_G == 160

GOAL_CUTOFF_HOUR == 20

LATE_EATING_HOUR == 22

UNDERFUEL_KCAL_2_MEALS == 500

CARB_SPIKE_G == 90

\* the factory of daily_totals
ZeroTotals == [protein_g |-> 0, carb_g |-> 0, fat_g |-> 0, kcal |-> 0]

Digits == <<"0", "1", "2", "3", "4", "5", "6", "7", "8", "9">>

\* the value of a string of decimal digits
RECURSIVE decimal(_)
decimal(s) ==
    IF s = <<>> THEN 0
    ELSE 10 * decimal(SubSeq(s, 1, Len(s) - 1))
            + (CHOOSE d \in 0..9 : Digits[d + 1] = s[Len(s)])

\* whether float(v) raises: TypeError on None, ValueError on a str that is not
\* a number (of the strings of the model, those that are not decimal digits
\* between optional whitespace)
float_raises(v) ==
    CASE v.t = "null" -> TRUE
      [] v.t = "num"  -> FALSE
      [] v.t = "bool" -> FALSE
      [] v.t = "str"  ->
            \/ v.iso
            \/ strip(v.s) = <<>>
            \/ \E i \in 1..Len(strip(v.s)) : \A d \in 1..10 : Digits[d] # strip(v.s)[i]

\* the exception float(v) raises
float_exception(v) == IF v.t = "null" THEN "TypeError" ELSE "ValueError"

\* float(v), for a value on which it does not raise
float(v) ==
    CASE v.t = "num"  -> v.n
      [] v.t = "bool" -> IF v.b THEN 1 ELSE 0
      [] v.t = "str"  -> decimal(strip(v.s))

\* mutant of rec_get_default: record.get(key), the default forgotten
rec_get_no_default(rec, key, dflt) == rec_get(rec, key)

\* record.get(key, dflt)
rec_get_default(rec, key, dflt) == IF key \in DOMAIN rec THEN rec[key] ELSE dflt

NumericFields == <<"protein_g", "carb_g", "fat_g", "kcal">>

(***************************************************************************)
(* json consumer: process_message                                          *)
(***************************************************************************)

\* lines 76-94: decoding, defaults and time normalisation.  diag is "ok" when
\* the meal goes on to the stores, "skipped" when line 88 rejects it, "raised"
\* (with the exception's class) when a statement raises.
json_parse(message) ==
    IF message.json = "invalid" THEN [diag |-> "raised", exc |-> "JSONDecodeError"]
    ELSE IF message.json # "object" THEN [diag |-> "raised", exc |-> "AttributeError"]
    ELSE LET record == message.obj
             ts == rec_get(record, "ts")
             num(k) == rec_get_default(record, k, Num(0))
             bad == {i \in 1..4 : float_raises(num(NumericFields[i]))}
         IN  IF bad # {}
             THEN [diag |-> "raised",
                   exc |-> float_exception(
                               num(NumericFields[CHOOSE i \in bad : \A j \in bad : i <= j]))]
             ELSE IF ~Truthy(ts) THEN [diag |-> "skipped"]
             ELSE IF parse_ts_raises(ts)
             THEN [diag |-> "raised",
                   exc |-> IF ts.t # "str" THEN "AttributeError" ELSE "ValueError"]
             ELSE [diag |-> "ok",
                   ts |-> ts,
                   meal |-> rec_get_default(record, "meal",
                                Str(<<"u", "n", "k", "n", "o", "w", "n">>)),
                   protein_g |-> float(num("protein_g")),
                   carb_g |-> float(num("carb_g")),
                   fat_g |-> float(num("fat_g")),
                   kcal |-> float(num("kcal")),
                   training_day |-> Truthy(rec_get_default(record, "training_day",
                                                           Bool(FALSE))),
                   local_dt |-> parse_ts_utc_to_local(ts),
                   local_date |-> date(parse_ts_utc_to_local(ts))]

\* lines 145-148: `except json.JSONDecodeError` and `except Exception`
json_catches(exc) == exc \in {"JSONDecodeError", "AttributeError", "ValueError", "TypeError"}

\* line 97: recent.append({...})
json_recent_update(rq, ev) ==
    deque_append(rq,
        [ts |-> ev.ts, meal |-> ev.meal, protein_g |-> ev.protein_g, carb_g |-> ev.carb_g,
         fat_g |-> ev.fat_g, kcal |-> ev.kcal, training_day |-> ev.training_day,
         local_dt |-> ev.local_dt],
        NUTRITION_ROLLING_WINDOW_SIZE)

\* lines 98-101, one of the four statements: daily_totals[local_date][k] += ev[k]
json_total_add(dt, ev, k) ==
    Store(dt, ev.local_date, [Lookup(dt, ev.local_date, ZeroTotals) EXCEPT ![k] = @ + ev[k]])

\* lines 98-101: the daily totals of local_date
json_totals_update(dt, ev) ==
    json_total_add(json_total_add(json_total_add(json_total_add(dt, ev,
        "protein_g"), ev, "carb_g"), ev, "fat_g"), ev, "kcal")

\* lines 119-120: CARB_SPIKE
json_carb_alert(ev) ==
    IF ev.carb_g >= CARB_SPIKE_G
    THEN <<[rule |-> "CARB_SPIKE", meal |-> ev.meal, carb_g |-> ev.carb_g]>>
    ELSE <<>>

\* mutant of json_underfuel_alert: the previous meal counts only when it is of
\* the same local date
json_underfuel_alert_same_date(rq, ev) ==
    IF ev.training_day /\ Len(rq) >= 2
       /\ date(rq[Len(rq) - 1].local_dt) = ev.local_date
       /\ rq[Len(rq)].kcal + rq[Len(rq) - 1].kcal < UNDERFUEL_KCAL_2_MEALS
    THEN <<[rule |-> "UNDERFUEL_AFTER_WORKOUT",
            kcal_last_two |-> rq[Len(rq)].kcal + rq[Len(rq) - 1].kcal]>>
    ELSE <<>>

\* lines 123-128: UNDERFUEL_AFTER_WORKOUT, on recent after its update
json_underfuel_alert(rq, ev) ==
    IF ev.training_day /\ Len(rq) >= 2
       /\ rq[Len(rq)].kcal + rq[Len(rq) - 1].kcal < UNDERFUEL_KCAL_2_MEALS
    THEN <<[rule |-> "UNDERFUEL_AFTER_WORKOUT",
            kcal_last_two |-> rq[Len(rq)].kcal + rq[Len(rq) - 1].kcal]>>
    ELSE <<>>

\* lines 131-134: LATE_EATING
json_late_eating_alert(ev) ==
    IF hour(ev.local_dt) >= LATE_EATING_HOUR /\ ev.kcal >= 500
    THEN <<[rule |-> "LATE_EATING", meal |-> ev.meal, kcal |-> ev.kcal]>>
    ELSE <<>>

\* lines 137-139: the condition of PROTEIN_GOAL, on daily_totals after its update
json_goal_reached(dt, pga, ev) ==
    /\ hour(ev.local_dt) >= GOAL_CUTOFF_HOUR
    /\ dt[ev.local_date].protein_g >= PROTEIN_GOAL_G
    /\ ~Lookup(pga, ev.local_date, FALSE)

\* mutant of json_goal_latch: the flag is never set
json_goal_latch_unset(dt, pga, ev) == pga

\* mutant of json_goal_latch: one announcement latches every date that has
\* totals
json_goal_latch_every_date(dt, pga, ev) ==
    IF json_goal_reached(dt, pga, ev)
    THEN [d \in (DOMAIN pga) \cup (DOMAIN dt) |-> TRUE]
    ELSE pga

\* mutant of json_goal_latch: the flag is set as soon as the protein of the
\* date reaches the goal, whatever the hour
json_goal_latch_before_cutoff(dt, pga, ev) ==
    IF dt[ev.local_date].protein_g >= PROTEIN_GOAL_G
    THEN Store(pga, ev.local_date, TRUE)
    ELSE pga

\* lines 139-140: protein_goal_announced[local_date] = True
json_goal_latch(dt, pga, ev) ==
    IF json_goal_reached(dt, pga, ev) THEN Store(pga, ev.local_date, TRUE) ELSE pga

\* lines 141-143: the PROTEIN_GOAL line, with the protein total of the date
json_goal_message(dt, ev) ==
    <<[rule |-> "PROTEIN_GOAL", protein_g |-> dt[ev.local_date].protein_g]>>

\* lines 137-143: PROTEIN_GOAL
json_goal_alert(dt, pga, ev) ==
    IF json_goal_reached(dt, pga, ev) THEN json_goal_message(dt, ev) ELSE <<>>

\* lines 96-143 on the stores S for the parsed meal ev: the stores after the
\* call and the alerts in the order of their emission
json_apply(S, ev) ==
    LET rq == json_recent_update(S.recent, ev)
        dt == json_totals_update(S.daily_totals, ev)
    IN  [recent |-> rq, daily_totals |-> dt,
         protein_goal_announced |-> json_goal_latch(dt, S.protein_goal_announced, ev),
         alerts |-> json_carb_alert(ev) \o json_underfuel_alert(rq, ev)
                    \o json_late_eating_alert(ev)
                    \o json_goal_alert(dt, S.protein_goal_announced, ev)]

\* lines 71-148 once the payload is parsed: the stores after the call, what the
\* call logged and the exception that leaves the call ("none" if none)
json_outcome(keep, ev, applied) ==
    IF ev.diag = "ok"
    THEN [stores |-> [x \in DOMAIN keep |-> applied[x]],
          out |-> [diag |-> "ok", event |-> ev, alerts |-> applied.alerts],
          escapes |-> "none"]
    ELSE IF ev.diag = "skipped"
    THEN [stores |-> keep, out |-> [diag |-> "skipped", event |-> None, alerts |-> <<>>],
          escapes |-> "none"]
    ELSE IF json_catches(ev.exc)
    THEN [stores |-> keep,
          out |-> [diag |-> IF ev.exc = "JSONDecodeError" THEN "json_error" ELSE "error",
                   event |-> None, alerts |-> <<>>],
          escapes |-> "none"]
    ELSE [stores |-> keep, out |-> [diag |-> "none", event |-> None, alerts |-> <<>>],
          escapes |-> ev.exc]

\* process_message after line 94, on the stores S
json_process_parsed(S, ev) ==
    json_outcome(S, ev, IF ev.diag = "ok" THEN json_apply(S, ev) ELSE S)

\* process_message(message), lines 71-148, on the stores S
json_process_message(S, message) == json_process_parsed(S, json_parse(message))

\* the module-level stores of the json consumer
JsonStores ==
    [recent |-> recent, daily_totals |-> daily_totals,
     protein_goal_announced |-> protein_goal_announced]

\* main, lines 159-177: one message of a polled batch, with the handlers of an
\* exception that leaves process_message
json_consume(message) ==
    /\ json_pc = "poll"
    /\ \E r \in {json_process_message(JsonStores, message)} :
        /\ recent' = r.stores.recent
        /\ daily_totals' = r.stores.daily_totals
        /\ protein_goal_announced' = r.stores.protein_goal_announced
        /\ nut_in' = Append(nut_in, message)
        /\ nut_out' = Append(nut_out, r.out)
        /\ IF r.escapes = "none"
           THEN UNCHANGED <<json_pc, closed>>
           ELSE /\ json_pc' = "closed"
                /\ closed' = [closed EXCEPT !["json"] = @ + 1]
    /\ UNCHANGED <<csv_frame, csv_pc, json_frame>>

(***************************************************************************)
(* Initial state: the module-level state of both consumers after import,   *)
(* each main at its first wait for a message                               *)
(***************************************************************************)

Init ==
    /\ course_windows = EmptyDict
    /\ daily_course_counts = EmptyDict
    /\ late_per_course_day = EmptyDict
    /\ student_absences = EmptyDict
    /\ att_in = <<>>
    /\ att_out = <<>>
    /\ recent = <<>>
    /\ daily_totals = EmptyDict
    /\ protein_goal_announced = EmptyDict
    /\ nut_in = <<>>
    /\ nut_out = <<>>
    /\ csv_pc = "poll"
    /\ csv_frame = None
    /\ json_pc = "poll"
    /\ json_frame = None
    /\ closed = [c \in {"csv", "json"} |-> 0]

(***************************************************************************)
(* Messages                                                                *)
(***************************************************************************)

\* a well-formed attendance payload: the producer's dict, serialised
AttMsg(ts, student, course, status) ==
    [json |-> "object",
     obj |-> [k \in {"ts", "student", "course", "status"} |->
                CASE k = "ts" -> ts
                  [] k = "student" -> Str(student)
                  [] k = "course" -> Str(course)
                  [] k = "status" -> Str(status)]]

\* the timestamp string of local wall-clock hour h of local day d, written
\* with the offset of standard time (for an instant after the end of daylight time)
LocalEST(d, h) == Iso(24 * d + h, "-05:00")

\* the timestamp string of local wall-clock hour h of local day d, written
\* in UTC with the suffix Z
LocalZ(d, h) == Iso(24 * d + h + (IF 24 * d + h < 7 * 24 + 1 THEN 4 ELSE 5), "Z")

Algebra == <<"A", "l", "g">>

Biology == <<"B", "i", "o">>

Ann == <<"a", "n", "n">>

Bob == <<"b", "o", "b">>

\* whether the alerts logged for one message include the rule
HasAlert(out, rule) == \E i \in 1..Len(out.alerts) : out.alerts[i].rule = rule

\* the indices i <= n of the messages that were applied as an event of the
\* course, read from the summaries logged for them
EventsOfCourse(course, n) ==
    {i \in 1..n : att_out[i].diag = "ok" /\ att_out[i].event.course = course}

(***************************************************************************)
(* SpecWindow: one course fed with events of every status                  *)
(***************************************************************************)

MaxWindowEvents == 11

WindowMsgs == {AttMsg(LocalZ(1, 12), Ann, Algebra, st) : st \in {present, late, absent}}

WindowStep ==
    /\ Len(att_in) < MaxWindowEvents
    /\ \E m \in WindowMsgs : csv_consume(m)
    /\ UNCHANGED jsonVars

SpecWindow == Init /\ [][WindowStep]_vars

\* C1: processing a valid event for course c emits the window-based
\* ATTENDANCE_DROP_CLASS alert if and only if, after the event is appended, the
\* rolling window of c holds exactly N statuses and (present + late) / N is
\* strictly below the threshold 0.85
C1_WindowAlertIff ==
    LET n == Len(att_out)
    IN  (n > 0 /\ att_out[n].diag = "ok") =>
            LET cw == course_windows[att_out[n].event.course]
                attended == Cardinality({i \in 1..Len(cw) : cw[i] = present \/ cw[i] = late})
            IN  HasAlert(att_out[n], "ATTENDANCE_DROP_CLASS (window)")
                    <=> (Len(cw) = 10 /\ attended * 100 < 85 * 10)

\* C1 witness: the window alert on an event that evicted the oldest status
C1_Witness ==
    /\ Len(att_out) > 10
    /\ HasAlert(att_out[Len(att_out)], "ATTENDANCE_DROP_CLASS (window)")
    /\ Len(course_windows[Algebra]) = 10

\* the example of C2: present, present, late, absent, absent, twice
C2_Example ==
    [i \in 1..10 |->
        AttMsg(LocalZ(1, 12), Ann, Algebra,
               <<present, present, late, absent, absent>>[((i - 1) % 5) + 1])]

\* C2: from the empty state no window-based ATTENDANCE_DROP_CLASS alert is
\* emitted on one of the first N-1 valid events of a course, and when the first
\* N valid events of the course have an attended rate below the threshold (as in
\* the example, 6/10) the alert is emitted on the N-th
C2_WindowFirstFull ==
    LET n == Len(att_out)
    IN  (n > 0 /\ att_out[n].diag = "ok") =>
            LET evs == EventsOfCourse(att_out[n].event.course, n)
                attended == Cardinality({i \in evs :
                                att_out[i].event.status \in {present, late}})
                fired == HasAlert(att_out[n], "ATTENDANCE_DROP_CLASS (window)")
            IN  /\ Cardinality(evs) <= 9 => ~fired
                /\ (Cardinality(evs) = 10 /\ attended * 100 < 85 * 10) => fired
                /\ att_in = C2_Example => fired

\* C2 witness: the example stream has been consumed and its 10th event alerts
C2_Witness ==
    /\ att_in = C2_Example
    /\ HasAlert(att_out[10], "ATTENDANCE_DROP_CLASS (window)")
    /\ \A i \in 1..9 : ~HasAlert(att_out[i], "ATTENDANCE_DROP_CLASS (window)")

(***************************************************************************)
(* SpecChronic: absences of two students, in any order of their timestamps *)
(***************************************************************************)

MaxChronicEvents == 4

\* a first absence at noon of day 1, and instants 6 days, exactly 7 days,
\* 7 days and one hour, and 8 days after it (daylight time ends in between)
ChronicTimes ==
    {LocalZ(1, 12), LocalEST(7, 12), LocalZ(8, 12), LocalZ(8, 13), LocalZ(9, 12)}

ChronicMsgs ==
    {AttMsg(ts, st, Algebra, absent) : ts \in ChronicTimes, st \in {Ann, Bob}}
        \cup {AttMsg(LocalZ(8, 12), Ann, Algebra, present)}

ChronicStep ==
    /\ Len(att_in) < MaxChronicEvents
    /\ \E m \in ChronicMsgs : csv_consume(m)
    /\ UNCHANGED jsonVars

SpecChronic == Init /\ [][ChronicStep]_vars

\* the indices i <= n of the absence events of the student
AbsencesOf(student, n) ==
    {i \in 1..n : /\ att_out[i].diag = "ok"
                  /\ att_out[i].event.student = student
                  /\ att_out[i].event.status = absent}

\* the absence events of the student up to n came in non-decreasing order of
\* their local timestamps
AbsencesInOrder(student, n) ==
    \A i, j \in AbsencesOf(student, n) :
        i < j => att_out[i].event.local_dt <= att_out[j].event.local_dt

\* C3: when the absences of a student arrive in non-decreasing timestamp order,
\* CHRONIC_ABSENCE_STUDENT is emitted on an absence if and only if at least 2 of
\* the student's absences, the current one included, are no older than 7 days
\* before the current one; it is emitted on no event that is not an absence
C3_ChronicIff ==
    LET n == Len(att_out)
    IN  (n > 0 /\ att_out[n].diag = "ok") =>
            LET e == att_out[n].event
                fired == HasAlert(att_out[n], "CHRONIC_ABSENCE_STUDENT")
                inside == {i \in AbsencesOf(e.student, n) :
                              att_out[i].event.local_dt >= e.local_dt - 7 * 24}
            IN  /\ e.status # absent => ~fired
                /\ (e.status = absent /\ AbsencesInOrder(e.student, n))
                        => (fired <=> Cardinality(inside) >= 2)

\* C3 witness: Ann absent at day 1, 6 days later (alert), and 7 days and one hour
\* after the first: the first is pruned, the second still counts, the alert
\* fires again
C3_Witness ==
    /\ att_in = <<AttMsg(LocalZ(1, 12), Ann, Algebra, absent),
                  AttMsg(LocalEST(7, 12), Ann, Algebra, absent),
                  AttMsg(LocalZ(8, 13), Ann, Algebra, absent)>>
    /\ ~HasAlert(att_out[1], "CHRONIC_ABSENCE_STUDENT")
    /\ HasAlert(att_out[2], "CHRONIC_ABSENCE_STUDENT")
    /\ HasAlert(att_out[3], "CHRONIC_ABSENCE_STUDENT")
    /\ student_absences[Ann] = <<7 * 24 + 12, 8 * 24 + 13>>

\* the absence log of the student lies within the 7 days that end at now, in
\* non-decreasing order
LogWithinWindow(student, now) ==
    LET log == student_absences[student]
    IN  /\ \A k \in 1..Len(log) : now - 7 * 24 <= log[k] /\ log[k] <= now
        /\ \A k \in 1..(Len(log) - 1) : log[k] <= log[k + 1]

MaxLateEvents == 5

\* 09:00 and 22:00 of local day 1 (the latter is 02:00Z of the next UTC day)
\* and 09:00 of local day 2
LateMsgs ==
    {AttMsg(ts, Ann, Algebra, st) :
        ts \in {LocalZ(1, 9), LocalZ(1, 22), LocalZ(2, 9)}, st \in {late, present}}
        \cup {AttMsg(LocalZ(1, 9), Bob, Biology, st) : st \in {late, absent}}

LateStep ==
    /\ Len(att_in) < MaxLateEvents
    /\ \E m \in LateMsgs : csv_consume(m)
    /\ UNCHANGED jsonVars

SpecLate == Init /\ [][LateStep]_vars

\* the indices i <= n of the late events of the course on the local date
LatesOf(course, local_date, n) ==
    {i \in 1..n : /\ att_out[i].diag = "ok"
                  /\ att_out[i].event.status = late
                  /\ att_out[i].event.course = course
                  /\ att_out[i].event.local_dt \div 24 = local_date}

\* C5: LATE_BURST_CLASS is emitted on an event if and only if the event is late
\* and the late events seen so far for its (course, local date), the current one
\* included, number 3 or more
C5_LateBurstIff ==
    LET n == Len(att_out)
    IN  (n > 0 /\ att_out[n].diag = "ok") =>
            LET e == att_out[n].event
            IN  HasAlert(att_out[n], "LATE_BURST_CLASS")
                    <=> (/\ e.status = late
                         /\ Cardinality(LatesOf(e.course, e.local_dt \div 24, n)) >= 3)

\* C5 witness: four late events of Algebra on local day 1, one of another date
\* in between; the alert is logged on the third and on the fourth, not before
C5_Witness ==
    /\ att_in = <<AttMsg(LocalZ(1, 9), Ann, Algebra, late),
                  AttMsg(LocalZ(1, 22), Ann, Algebra, late),
                  AttMsg(LocalZ(2, 9), Ann, Algebra, late),
                  AttMsg(LocalZ(1, 22), Ann, Algebra, late),
                  AttMsg(LocalZ(1, 9), Ann, Algebra, late)>>
    /\ \A i \in {1, 2, 3} : ~HasAlert(att_out[i], "LATE_BURST_CLASS")
    /\ \A i \in {4, 5} : HasAlert(att_out[i], "LATE_BURST_CLASS")
    /\ late_per_course_day[<<Algebra, 1>>] = 4

(***************************************************************************)
(* SpecGoal: meals of two local dates around the 20:00 cutoff, in any order *)
(***************************************************************************)

\* a nutrition payload with every field of the producer's records
NutMsg(ts, protein_g, carb_g, kcal, training_day) ==
    [json |-> "object",
     obj |-> [k \in {"ts", "meal", "protein_g", "carb_g", "fat_g", "kcal", "training_day"} |->
                CASE k = "ts" -> ts
                  [] k = "meal" -> Str(<<"m">>)
                  [] k = "protein_g" -> Num(protein_g)
                  [] k = "carb_g" -> Num(carb_g)
                  [] k = "fat_g" -> Num(10)
                  [] k = "kcal" -> Num(kcal)
                  [] k = "training_day" -> Bool(training_day)]]

MaxGoalEvents == 4

\* 19:00, 20:00 and 23:00 of local day 1 (20:00 is 00:00Z of the next UTC day)
\* and 21:00 of local day 2
GoalMsgs ==
    {NutMsg(ts, p, 40, 400, FALSE) :
        ts \in {LocalZ(1, 19), LocalZ(1, 20), LocalZ(1, 23), LocalZ(2, 21)},
        p \in {80, 160}}

GoalStep ==
    /\ Len(nut_in) < MaxGoalEvents
    /\ \E m \in GoalMsgs : json_consume(m)
    /\ UNCHANGED csvVars

SpecGoal == Init /\ [][GoalStep]_vars

\* the indices of the messages on which PROTEIN_GOAL was logged for the date
GoalAlertsOf(local_date) ==
    {i \in 1..Len(nut_out) : /\ nut_out[i].diag = "ok"
                             /\ nut_out[i].event.local_dt \div 24 = local_date
                             /\ HasAlert(nut_out[i], "PROTEIN_GOAL")}

\* C6: over any stream of nutrition messages, dates interleaved or not,
\* PROTEIN_GOAL is emitted at most once for each local date
C6_GoalAtMostOncePerDate ==
    \A d \in {nut_out[i].event.local_dt \div 24 :
                 i \in {j \in 1..Len(nut_out) : nut_out[j].diag = "ok"}} :
        Cardinality(GoalAlertsOf(d)) <= 1

\* C6 witness: day 1 reaches its goal at 20:00, day 2 reaches its own at 21:00,
\* and a later meal of day 1 at 23:00, which qualifies again, logs no alert
C6_Witness ==
    /\ nut_in = <<NutMsg(LocalZ(1, 20), 160, 40, 400, FALSE),
                  NutMsg(LocalZ(2, 21), 160, 40, 400, FALSE),
                  NutMsg(LocalZ(1, 23), 160, 40, 400, FALSE)>>
    /\ GoalAlertsOf(1) = {1}
    /\ GoalAlertsOf(2) = {2}
    /\ daily_totals[1].protein_g = 320

(***************************************************************************)
(* SpecInvalid: valid attendance events among records that fail validation *)
(***************************************************************************)

\* the payload with one field removed
Without(message, key) ==
    [message EXCEPT !.obj = [k \in (DOMAIN message.obj) \ {key} |-> message.obj[k]]]

\* the payload with one field set to the value
With(message, key, value) == [message EXCEPT !.obj[key] = value]

\* the stores of the csv consumer after import
CsvInitStores ==
    [course_windows |-> EmptyDict, daily_course_counts |-> EmptyDict,
     late_per_course_day |-> EmptyDict, student_absences |-> EmptyDict]

\* the run so far extended by the outcome r of one more call
csv_run_next(run, r) == [stores |-> r.stores, outs |-> Append(run.outs, r.out)]

\* the run so far extended by one more message
csv_run_step(run, message) == csv_run_next(run, csv_process_message(run.stores, message))

\* process_message called on the messages in turn, from the stores after import:
\* the stores at the end and what each call logged
RECURSIVE csv_run(_)
csv_run(messages) ==
    IF messages = <<>> THEN [stores |-> CsvInitStores, outs |-> <<>>]
    ELSE csv_run_step(csv_run(SubSeq(messages, 1, Len(messages) - 1)),
                      messages[Len(messages)])

MaxInvalidEvents == 4

LateRaw == AttMsg(LocalZ(1, 9), <<" ", "a", "n", "n", " ">>, Algebra, <<" ", "L", "a", "t", "e", "\n">>)

AbsentRaw == AttMsg(LocalZ(1, 9), Ann, Algebra, <<"A", "B", "S", "E", "N", "T">>)

InvalidMsgs ==
    {LateRaw, AbsentRaw,
     Without(AbsentRaw, "ts"),
     With(AbsentRaw, "ts", Str(<<>>)),
     Without(AbsentRaw, "student"),
     With(AbsentRaw, "student", Str(<<" ", " ">>)),
     With(AbsentRaw, "course", Str(<<>>)),
     Without(LateRaw, "status"),
     With(LateRaw, "status", Str(<<"e", "x", "c", "u", "s", "e", "d">>))}

InvalidStep ==
    /\ Len(att_in) < MaxInvalidEvents
    /\ \E m \in InvalidMsgs : csv_consume(m)
    /\ UNCHANGED jsonVars

SpecInvalid == Init /\ [][InvalidStep]_vars

\* the field is missing from the payload, null or the empty string
MissingOrEmpty(message, key) ==
    \/ key \notin DOMAIN message.obj
    \/ message.obj[key] = None
    \/ message.obj[key] = Str(<<>>)

\* the record fails validation: ts, student or course missing or empty, status
\* missing, or status outside {present, late, absent} once trimmed and
\* lower-cased
FailsValidation(message) ==
    /\ message.json = "object"
    /\ \/ MissingOrEmpty(message, "ts")
       \/ MissingOrEmpty(message, "student")
       \/ MissingOrEmpty(message, "course")
       \/ MissingOrEmpty(message, "status")
       \/ lower(strip(message.obj["status"].s)) \notin
              {<<"p", "r", "e", "s", "e", "n", "t">>, <<"l", "a", "t", "e">>,
               <<"a", "b", "s", "e", "n", "t">>}

\* the entries of seq at the indices whose message of att_in passes validation
RECURSIVE PassingOnly(_, _)
PassingOnly(seq, n) ==
    IF n = 0 THEN <<>>
    ELSE IF FailsValidation(att_in[n]) THEN PassingOnly(seq, n - 1)
    ELSE Append(PassingOnly(seq, n - 1), seq[n])

\* att_out and the stores agree with the run in which the failing records
\* never arrived
SameAsWithoutFailing(run) ==
    /\ PassingOnly(att_out, Len(att_out)) = run.outs
    /\ CsvStores = run.stores

\* C7: an attendance record that fails validation emits no alert and leaves the
\* four stores as they were, and what the other messages log is what they log
\* in the run from which the failing records are absent
C7_InvalidLeavesNoTrace ==
    /\ \A i \in 1..Len(att_out) : FailsValidation(att_in[i]) => att_out[i].alerts = <<>>
    /\ SameAsWithoutFailing(csv_run(PassingOnly(att_in, Len(att_in))))

\* C7 witness: an absence, a record with status "excused", a record without
\* status, and a second absence, which logs CHRONIC_ABSENCE_STUDENT as the
\* second event of its student
C7_Witness ==
    /\ att_in = <<AbsentRaw,
                  With(LateRaw, "status", Str(<<"e", "x", "c", "u", "s", "e", "d">>)),
                  Without(LateRaw, "status"),
                  AbsentRaw>>
    /\ att_out[2].diag = "invalid" /\ att_out[2].alerts = <<>>
    /\ att_out[3].diag = "invalid" /\ att_out[3].alerts = <<>>
    /\ HasAlert(att_out[4], "CHRONIC_ABSENCE_STUDENT")
    /\ course_windows[Algebra] = <<absent, absent>>
    /\ daily_course_counts[<<Algebra, 1>>][total] = 2

(***************************************************************************)
(* SpecErrors: both consumers, fed with payloads that raise among valid ones *)
(***************************************************************************)

MaxErrorEvents == 3

\* a payload that json.loads rejects
NotJson == [json |-> "invalid"]

\* a payload that is valid JSON but no object
JsonArray == [json |-> "array"]

Garbage == Str(<<"s", "o", "o", "n">>)

CsvErrorMsgs ==
    {AttMsg(LocalZ(1, 9), Ann, Algebra, absent),
     NotJson, JsonArray,
     AttMsg(Garbage, Ann, Algebra, absent),
     AttMsg(Num(5), Ann, Algebra, late)}

JsonErrorMsgs ==
    {NutMsg(LocalZ(1, 21), 80, 40, 400, FALSE),
     NotJson,
     NutMsg(Garbage, 160, 40, 400, FALSE),
     NutMsg(Num(5), 160, 90, 600, TRUE)}

CsvErrorStep ==
    /\ Len(att_in) < MaxErrorEvents
    /\ \E m \in CsvErrorMsgs : csv_consume(m)
    /\ UNCHANGED jsonVars

JsonErrorStep ==
    /\ Len(nut_in) < MaxErrorEvents
    /\ \E m \in JsonErrorMsgs : json_consume(m)
    /\ UNCHANGED csvVars

ErrorsNext == CsvErrorStep \/ JsonErrorStep

SpecErrors == Init /\ [][ErrorsNext]_vars

\* the payload is not valid JSON, or its ts is there and cannot be parsed
RaisesPerEvent(message) ==
    \/ message.json = "invalid"
    \/ /\ message.json = "object"
       /\ "ts" \in DOMAIN message.obj
       /\ message.obj["ts"] \notin {None, Str(<<>>), Num(0)}
       /\ (message.obj["ts"].t # "str" \/ ~message.obj["ts"].iso)

\* C8: in both consumers a message that raises a per-event error (invalid JSON,
\* unparseable timestamp) is dropped: process_message returns to the loop, which
\* goes on polling; one error line and no alert are logged for the message; every
\* store keeps its value
C8_ErrorsIsolated ==
    [][/\ (att_in' # att_in /\ RaisesPerEvent(att_in'[Len(att_in')])) =>
            /\ <<course_windows, daily_course_counts, late_per_course_day,
                 student_absences>>' =
               <<course_windows, daily_course_counts, late_per_course_day,
                 student_absences>>
            /\ att_out'[Len(att_out')].alerts = <<>>
            /\ att_out'[Len(att_out')].diag \in {"json_error", "error"}
            /\ csv_pc' = "poll" /\ closed' = closed
       /\ (nut_in' # nut_in /\ RaisesPerEvent(nut_in'[Len(nut_in')])) =>
            /\ <<recent, daily_totals, protein_goal_announced>>' =
               <<recent, daily_totals, protein_goal_announced>>
            /\ nut_out'[Len(nut_out')].alerts = <<>>
            /\ nut_out'[Len(nut_out')].diag \in {"json_error", "error"}
            /\ json_pc' = "poll" /\ closed' = closed]_vars

\* C8 witness: each consumer has dropped a payload that raised and has then
\* processed a valid one, whose alert counts the events before the dropped one
C8_Witness ==
    /\ att_in = <<AttMsg(LocalZ(1, 9), Ann, Algebra, absent),
                  AttMsg(Garbage, Ann, Algebra, absent),
                  AttMsg(LocalZ(1, 9), Ann, Algebra, absent)>>
    /\ att_out[2].diag = "error"
    /\ HasAlert(att_out[3], "CHRONIC_ABSENCE_STUDENT")
    /\ nut_in = <<NutMsg(LocalZ(1, 21), 80, 40, 400, FALSE),
                  NotJson,
                  NutMsg(LocalZ(1, 21), 80, 40, 400, FALSE)>>
    /\ nut_out[2].diag = "json_error"
    /\ HasAlert(nut_out[3], "PROTEIN_GOAL")
    /\ csv_pc = "poll" /\ json_pc = "poll"

(***************************************************************************)
(* SpecCoerce: meals whose numeric fields are missing or are no numbers     *)
(***************************************************************************)

MaxCoerceEvents == 4

\* a training-day meal at 21:00 of local day 1
Snack == NutMsg(LocalZ(1, 21), 80, 40, 200, TRUE)

CoerceMsgs ==
    {Snack,
     Without(Snack, "kcal"),
     Without(Without(Snack, "protein_g"), "carb_g"),
     With(Snack, "protein_g", Str(<<" ", "8", "0", " ">>)),
     With(Snack, "protein_g", Str(<<"a", "b", "c">>)),
     With(Snack, "kcal", None),
     With(Without(Snack, "carb_g"), "fat_g", Str(<<>>))}

CoerceStep ==
    /\ Len(nut_in) < MaxCoerceEvents
    /\ \E m \in CoerceMsgs : json_consume(m)
    /\ UNCHANGED csvVars

SpecCoerce == Init /\ [][CoerceStep]_vars

\* the numeric fields that the payload does not carry
AbsentNumbers(message) ==
    {f \in {"protein_g", "carb_g", "fat_g", "kcal"} : f \notin DOMAIN message.obj}

\* the numeric fields that the payload carries with a value that is no number:
\* null, or a string that, trimmed, is empty or has a character that is no digit
NonNumbers(message) ==
    {f \in {"protein_g", "carb_g", "fat_g", "kcal"} :
        /\ f \in DOMAIN message.obj
        /\ \/ message.obj[f] = None
           \/ /\ message.obj[f].t = "str"
              /\ LET chars == strip(message.obj[f].s)
                 IN  \/ chars = <<>>
                     \/ \E k \in 1..Len(chars) :
                           chars[k] \notin {"0", "1", "2", "3", "4", "5", "6", "7", "8", "9"}}

\* the indices of the meals that went on to the stores
Accepted == {i \in 1..Len(nut_out) : nut_out[i].diag = "ok"}

\* the sum of the field over the accepted meals of the indices
RECURSIVE SumField(_, _)
SumField(idx, f) ==
    IF idx = {} THEN 0
    ELSE LET i == CHOOSE x \in idx : TRUE
         IN  nut_out[i].event[f] + SumField(idx \ {i}, f)

\* recent and daily_totals hold the accepted meals and nothing else
StoresHoldAccepted ==
    /\ Len(recent) = Cardinality(Accepted)
    /\ Len(recent) > 0 =>
          LET i == CHOOSE x \in Accepted : \A y \in Accepted : y <= x
          IN  \A f \in {"protein_g", "carb_g", "fat_g", "kcal"} :
                  recent[Len(recent)][f] = nut_out[i].event[f]
    /\ \A d \in DOMAIN daily_totals :
          \A f \in {"protein_g", "carb_g", "fat_g", "kcal"} :
              daily_totals[d][f] =
                  SumField({i \in Accepted : nut_out[i].event.local_dt \div 24 = d}, f)
    /\ \A i \in Accepted : (nut_out[i].event.local_dt \div 24) \in DOMAIN daily_totals

\* the rules that read the field were evaluated on the value 0
EvaluatedAsZero(i, f) ==
    /\ f = "carb_g" => ~HasAlert(nut_out[i], "CARB_SPIKE")
    /\ f = "kcal" =>
          /\ ~HasAlert(nut_out[i], "LATE_EATING")
          /\ \A j \in Accepted :
                (j < i /\ \A k \in Accepted : ~(j < k /\ k < i)) =>
                    (HasAlert(nut_out[i], "UNDERFUEL_AFTER_WORKOUT")
                        <=> (nut_out[i].event.training_day
                             /\ nut_out[j].event.kcal + 0 < 500))

\* C9 as claimed: a nutrition message with a parseable ts in which a numeric
\* field is absent or not coercible to a number is not dropped; the field is
\* taken as 0, the meal is in the stores and the rules ran on that value
C9_MissingOrBadNumberIsZero ==
    /\ StoresHoldAccepted
    /\ \A i \in 1..Len(nut_in) :
          \A f \in AbsentNumbers(nut_in[i]) \cup NonNumbers(nut_in[i]) :
              /\ nut_out[i].diag = "ok"
              /\ nut_out[i].event[f] = 0
              /\ EvaluatedAsZero(i, f)

\* C9 as amended: a nutrition message with a parseable ts whose numeric fields
\* are absent or coercible is not dropped: each absent field is taken as 0, the
\* meal is in the stores and the rules ran on that value; a message in which a
\* numeric field is present and not coercible (float raises) is dropped with an
\* error line, no alert and no change of the stores
C9_AbsentIsZero_BadIsDropped ==
    /\ StoresHoldAccepted
    /\ \A i \in 1..Len(nut_in) :
          /\ NonNumbers(nut_in[i]) = {} =>
                \A f \in AbsentNumbers(nut_in[i]) :
                    /\ nut_out[i].diag = "ok"
                    /\ nut_out[i].event[f] = 0
                    /\ EvaluatedAsZero(i, f)
          /\ NonNumbers(nut_in[i]) # {} =>
                /\ nut_out[i].diag = "error"
                /\ nut_out[i].alerts = <<>>

\* C9 witness: a 200 kcal meal, a meal without kcal (taken as 0: the last two
\* meals total 200 kcal, UNDERFUEL_AFTER_WORKOUT), and a meal whose protein_g is
\* "abc", which is dropped
C9_Witness ==
    /\ nut_in = <<Snack, Without(Snack, "kcal"),
                  With(Snack, "protein_g", Str(<<"a", "b", "c">>))>>
    /\ HasAlert(nut_out[2], "UNDERFUEL_AFTER_WORKOUT")
    /\ nut_out[3].diag = "error"
    /\ Len(recent) = 2 /\ recent[2].kcal = 0
    /\ daily_totals[1] = [protein_g |-> 160, carb_g |-> 80, fat_g |-> 20, kcal |-> 200]

(***************************************************************************)
(* SpecShutdown: both consumers statement by statement, with the shutdown   *)
(* signal.  Python raises KeyboardInterrupt in the main thread between two  *)
(* bytecodes, wherever the thread is; `except Exception` does not catch it, *)
(* so it leaves process_message and reaches main's handler (csv lines       *)
(* 202-208, json lines 170-177).                                            *)
(***************************************************************************)

\* mutant of csv_log: a later alert is put before the earlier ones
csv_log_prepend(alerts) ==
    [att_out EXCEPT ![Len(att_out)].alerts = alerts \o @]

\* att_out with the alerts appended to what the call in progress has logged
csv_log(alerts) ==
    [att_out EXCEPT ![Len(att_out)].alerts = @ \o alerts]

\* lines 198-201: the loop hands the next message to process_message
csv_receive(message) ==
    /\ csv_pc = "poll"
    /\ csv_pc' = "L108"
    /\ csv_frame' = [message |-> message]
    /\ att_in' = Append(att_in, message)
    /\ UNCHANGED <<csvStores, att_out, jsonVars, json_pc, json_frame, closed>>

\* lines 108-126: parse, validate, normalise the time and log the summary; a
\* dropped payload ends the call
csv_step_parse ==
    /\ csv_pc = "L108"
    /\ \E ev \in {csv_parse(csv_frame.message)} :
          IF ev.diag = "ok"
          THEN /\ att_out' = Append(att_out, [diag |-> "ok", event |-> ev, alerts |-> <<>>])
               /\ csv_frame' = ev
               /\ csv_pc' = "L129"
               /\ UNCHANGED closed
          ELSE \E r \in {csv_outcome(CsvStores, ev, CsvStores)} :
                  /\ att_out' = Append(att_out, r.out)
                  /\ csv_frame' = None
                  /\ IF r.escapes = "none"
                     THEN csv_pc' = "poll" /\ UNCHANGED closed
                     ELSE /\ csv_pc' = "closed"
                          /\ closed' = [closed EXCEPT !["csv"] = @ + 1]
    /\ UNCHANGED <<csvStores, att_in, jsonVars, json_pc, json_frame>>

\* lines 129-130
csv_step_window ==
    /\ csv_pc = "L129"
    /\ course_windows' = csv_window_update(course_windows, csv_frame)
    /\ csv_pc' = "L134"
    /\ UNCHANGED <<daily_course_counts, late_per_course_day, student_absences, att_in,
                   att_out, csv_frame, jsonVars, json_pc, json_frame, closed>>

\* lines 133-134
csv_step_total ==
    /\ csv_pc = "L134"
    /\ daily_course_counts' = csv_daily_total(daily_course_counts, csv_frame)
    /\ csv_pc' = "L135"
    /\ UNCHANGED <<course_windows, late_per_course_day, student_absences, att_in,
                   att_out, csv_frame, jsonVars, json_pc, json_frame, closed>>

\* line 135
csv_step_status ==
    /\ csv_pc = "L135"
    /\ daily_course_counts' = csv_daily_status(daily_course_counts, csv_frame)
    /\ csv_pc' = "L138"
    /\ UNCHANGED <<course_windows, late_per_course_day, student_absences, att_in,
                   att_out, csv_frame, jsonVars, json_pc, json_frame, closed>>

\* lines 138-152: the window rule and the daily rule
csv_step_rate_rules ==
    /\ csv_pc = "L138"
    /\ att_out' = csv_log(csv_window_alert(course_windows, csv_frame)
                          \o csv_daily_alert(daily_course_counts, csv_frame))
    /\ csv_pc' = "L155"
    /\ UNCHANGED <<csvStores, att_in, csv_frame, jsonVars, json_pc, json_frame, closed>>

\* lines 155-161: the late counter and the late-burst rule
csv_step_late ==
    /\ csv_pc = "L155"
    /\ late_per_course_day' = csv_late_update(late_per_course_day, csv_frame)
    /\ att_out' = csv_log(csv_late_alert(late_per_course_day', csv_frame))
    /\ csv_pc' = "L164"
    /\ UNCHANGED <<course_windows, daily_course_counts, student_absences, att_in,
                   csv_frame, jsonVars, json_pc, json_frame, closed>>

\* lines 164-166
csv_step_absence ==
    /\ csv_pc = "L164"
    /\ student_absences' = csv_absence_append(student_absences, csv_frame)
    /\ csv_pc' = "L167"
    /\ UNCHANGED <<course_windows, daily_course_counts, late_per_course_day, att_in,
                   att_out, csv_frame, jsonVars, json_pc, json_frame, closed>>

\* lines 167-172: the prune and the chronic-absence rule; the call returns
csv_step_chronic ==
    /\ csv_pc = "L167"
    /\ student_absences' = csv_absence_prune(student_absences, csv_frame)
    /\ att_out' = csv_log(csv_chronic_alert(student_absences', csv_frame))
    /\ csv_pc' = "poll"
    /\ csv_frame' = None
    /\ UNCHANGED <<course_windows, daily_course_counts, late_per_course_day, att_in,
                   jsonVars, json_pc, json_frame, closed>>

\* lines 202-208: KeyboardInterrupt, raised wherever main is, ends the loop and
\* the consumer is closed
csv_interrupt ==
    /\ csv_pc # "closed"
    /\ csv_pc' = "closed"
    /\ csv_frame' = None
    /\ closed' = [closed EXCEPT !["csv"] = @ + 1]
    /\ UNCHANGED <<csvVars, jsonVars, json_pc, json_frame>>

\* nut_out with the alerts appended to what the call in progress has logged
json_log(alerts) ==
    [nut_out EXCEPT ![Len(nut_out)].alerts = @ \o alerts]

\* lines 164-169: the loop hands the next message of the batch to process_message
json_receive(message) ==
    /\ json_pc = "poll"
    /\ json_pc' = "L76"
    /\ json_frame' = [message |-> message]
    /\ nut_in' = Append(nut_in, message)
    /\ UNCHANGED <<jsonStores, nut_out, csvVars, csv_pc, csv_frame, closed>>

\* lines 76-94: parse, default and normalise the time; a dropped payload ends
\* the call
json_step_parse ==
    /\ json_pc = "L76"
    /\ \E ev \in {json_parse(json_frame.message)} :
          IF ev.diag = "ok"
          THEN /\ nut_out' = Append(nut_out, [diag |-> "ok", event |-> ev, alerts |-> <<>>])
               /\ json_frame' = ev
               /\ json_pc' = "L97"
               /\ UNCHANGED closed
          ELSE \E r \in {json_outcome(JsonStores, ev, JsonStores)} :
                  /\ nut_out' = Append(nut_out, r.out)
                  /\ json_frame' = None
                  /\ IF r.escapes = "none"
                     THEN json_pc' = "poll" /\ UNCHANGED closed
                     ELSE /\ json_pc' = "closed"
                          /\ closed' = [closed EXCEPT !["json"] = @ + 1]
    /\ UNCHANGED <<jsonStores, nut_in, csvVars, csv_pc, csv_frame>>

\* line 97
json_step_recent ==
    /\ json_pc = "L97"
    /\ recent' = json_recent_update(recent, json_frame)
    /\ json_pc' = "L98"
    /\ UNCHANGED <<daily_totals, protein_goal_announced, nut_in, nut_out, json_frame,
                   csvVars, csv_pc, csv_frame, closed>>

\* lines 98-101, one statement at a time
json_step_total ==
    /\ \E k \in 1..4 :
          /\ json_pc = <<"L98", "L99", "L100", "L101">>[k]
          /\ daily_totals' = json_total_add(daily_totals, json_frame, NumericFields[k])
          /\ json_pc' = <<"L99", "L100", "L101", "L119">>[k]
    /\ UNCHANGED <<recent, protein_goal_announced, nut_in, nut_out, json_frame,
                   csvVars, csv_pc, csv_frame, closed>>

\* lines 119-134: CARB_SPIKE, UNDERFUEL_AFTER_WORKOUT, LATE_EATING
json_step_rules ==
    /\ json_pc = "L119"
    /\ nut_out' = json_log(json_carb_alert(json_frame)
                           \o json_underfuel_alert(recent, json_frame)
                           \o json_late_eating_alert(json_frame))
    /\ json_pc' = "L137"
    /\ UNCHANGED <<jsonStores, nut_in, json_frame, csvVars, csv_pc, csv_frame, closed>>

\* lines 137-140: the condition of PROTEIN_GOAL and the latch; the call returns
\* when the condition is false
json_step_goal ==
    /\ json_pc = "L137"
    /\ protein_goal_announced' =
          json_goal_latch(daily_totals, protein_goal_announced, json_frame)
    /\ IF json_goal_reached(daily_totals, protein_goal_announced, json_frame)
       THEN json_pc' = "L141" /\ UNCHANGED json_frame
       ELSE json_pc' = "poll" /\ json_frame' = None
    /\ UNCHANGED <<recent, daily_totals, nut_in, nut_out, csvVars, csv_pc, csv_frame,
                   closed>>

\* lines 141-143: the PROTEIN_GOAL line is logged; the call returns
json_step_goal_log ==
    /\ json_pc = "L141"
    /\ nut_out' = json_log(json_goal_message(daily_totals, json_frame))
    /\ json_pc' = "poll"
    /\ json_frame' = None
    /\ UNCHANGED <<jsonStores, nut_in, csvVars, csv_pc, csv_frame, closed>>

\* lines 170-177: KeyboardInterrupt, raised wherever main is
json_interrupt ==
    /\ json_pc # "closed"
    /\ json_pc' = "closed"
    /\ json_frame' = None
    /\ closed' = [closed EXCEPT !["json"] = @ + 1]
    /\ UNCHANGED <<jsonVars, csvVars, csv_pc, csv_frame>>

MaxShutdownEvents == 2

CsvShutdownMsgs ==
    {AttMsg(LocalZ(1, 9), Ann, Algebra, absent),
     AttMsg(LocalZ(1, 9), Ann, Algebra, late),
     With(AbsentRaw, "status", Str(<<"e", "x", "c", "u", "s", "e", "d">>))}

JsonShutdownMsgs == {NutMsg(LocalZ(1, 21), 160, 90, 200, TRUE), Without(Snack, "ts")}

CsvShutdownReceive ==
    /\ Len(att_in) < MaxShutdownEvents
    /\ \E m \in CsvShutdownMsgs : csv_receive(m)

JsonShutdownReceive ==
    /\ Len(nut_in) < MaxShutdownEvents
    /\ \E m \in JsonShutdownMsgs : json_receive(m)

ShutdownNext ==
    \/ CsvShutdownReceive
    \/ csv_step_parse
    \/ csv_step_window
    \/ csv_step_total
    \/ csv_step_status
    \/ csv_step_rate_rules
    \/ csv_step_late
    \/ csv_step_absence
    \/ csv_step_chronic
    \/ csv_interrupt
    \/ JsonShutdownReceive
    \/ json_step_parse
    \/ json_step_recent
    \/ json_step_total
    \/ json_step_rules
    \/ json_step_goal
    \/ json_step_goal_log
    \/ json_interrupt

SpecShutdown == Init /\ [][ShutdownNext]_vars

\* the stores of the json consumer after import
JsonInitStores ==
    [recent |-> <<>>, daily_totals |-> EmptyDict, protein_goal_announced |-> EmptyDict]

\* the run so far extended by the outcome r of one more call
json_run_next(run, r) == [stores |-> r.stores, outs |-> Append(run.outs, r.out)]

\* the run so far extended by one more message
json_run_step(run, message) ==
    json_run_next(run, json_process_message(run.stores, message))

\* process_message called on the messages in turn, from the stores after import
RECURSIVE json_run(_)
json_run(messages) ==
    IF messages = <<>> THEN [stores |-> JsonInitStores, outs |-> <<>>]
    ELSE json_run_step(json_run(SubSeq(messages, 1, Len(messages) - 1)),
                       messages[Len(messages)])

\* the alerts logged for each of the n messages handed over, none for a
\* message whose call logged nothing
AlertsLogged(outs, n) ==
    [i \in 1..n |-> IF i <= Len(outs) THEN outs[i].alerts ELSE <<>>]

\* the stores, and the alerts logged for the n messages handed over, are those
\* of a run in which every message was processed to the end, or every one but
\* the last, which then changed no store and raised no alert
WholeEvents(stores, outs, n, run, run_but_last) ==
    \/ stores = run.stores /\ AlertsLogged(outs, n) = AlertsLogged(run.outs, n)
    \/ /\ stores = run_but_last.stores
       /\ AlertsLogged(outs, n) = AlertsLogged(run_but_last.outs, n)

\* the statements of process_message, taken one by one between two waits for a
\* message, make the step that process_message makes as a whole
StepsRefineCall ==
    /\ csv_pc = "poll" =>
          CsvStores = csv_run(att_in).stores /\ att_out = csv_run(att_in).outs
    /\ json_pc = "poll" =>
          JsonStores = json_run(nut_in).stores /\ nut_out = json_run(nut_in).outs

\* C10: after a shutdown signal, delivered at whatever point of the consume
\* loop, each event handed to process_message is either applied to all its
\* stores and evaluated against all rules, or not applied at all
C10_ShutdownLeavesWholeEvents ==
    /\ csv_pc = "closed" =>
          WholeEvents(CsvStores, att_out, Len(att_in), csv_run(att_in),
                      csv_run(SubSeq(att_in, 1, Len(att_in) - 1)))
    /\ json_pc = "closed" =>
          WholeEvents(JsonStores, nut_out, Len(nut_in), json_run(nut_in),
                      json_run(SubSeq(nut_in, 1, Len(nut_in) - 1)))

(***************************************************************************)
(* SpecOrder: the csv consumer statement by statement on events of one      *)
(* course and date, enough of them to fill the rolling window               *)
(***************************************************************************)

MaxOrderEvents == 10

OrderMsgs == {AttMsg(LocalZ(1, 12), Ann, Algebra, st) : st \in {late, absent}}

OrderReceive ==
    /\ Len(att_in) < MaxOrderEvents
    /\ \E m \in OrderMsgs : csv_receive(m)

OrderNext ==
    \/ OrderReceive
    \/ csv_step_parse
    \/ csv_step_window
    \/ csv_step_total
    \/ csv_step_status
    \/ csv_step_rate_rules
    \/ csv_step_late
    \/ csv_step_absence
    \/ csv_step_chronic

SpecOrder == Init /\ [][OrderNext]_vars

\* the place of a rule in the order of evaluation
RuleRank(rule) ==
    CASE rule = "ATTENDANCE_DROP_CLASS (window)" -> 1
      [] rule = "ATTENDANCE_DROP_CLASS (daily)" -> 2
      [] rule = "LATE_BURST_CLASS" -> 3
      [] rule = "CHRONIC_ABSENCE_STUDENT" -> 3

\* the indices i <= n of the events of the course on the local date
EventsOfCourseDate(course, local_date, n) ==
    {i \in EventsOfCourse(course, n) : att_out[i].event.local_dt \div 24 = local_date}

\* of a set of event indices, those whose status is present or late
Attended(evs) == {i \in evs : att_out[i].event.status \in {present, late}}

\* the last 10 of the events of the course up to n
LastTenOfCourse(course, n) ==
    {i \in EventsOfCourse(course, n) :
        Cardinality({j \in EventsOfCourse(course, n) : j > i}) < 10}

\* the rate that the alert of the rule logged for message n reports, if any,
\* is the pair <<attended, counted>>
AlertReports(n, rule, attended, counted) ==
    \A k \in 1..Len(att_out[n].alerts) :
        att_out[n].alerts[k].rule = rule =>
            att_out[n].alerts[k].rate = <<attended, counted>>

\* C11: within the processing of one valid attendance event, the rolling window
\* and the daily counters include the event when the rules are evaluated (the
\* rates that the alerts report count it), and its alerts are emitted in the
\* order window ATTENDANCE_DROP_CLASS, daily ATTENDANCE_DROP_CLASS, then
\* LATE_BURST_CLASS or CHRONIC_ABSENCE_STUDENT
C11_StoresFirstThenRulesInOrder ==
    LET n == Len(att_out)
    IN  (n > 0 /\ att_out[n].diag = "ok") =>
            LET e == att_out[n].event
                a == att_out[n].alerts
                day == EventsOfCourseDate(e.course, e.local_dt \div 24, n)
                win == LastTenOfCourse(e.course, n)
            IN  /\ \A i, j \in 1..Len(a) : i < j => RuleRank(a[i].rule) < RuleRank(a[j].rule)
                /\ AlertReports(n, "ATTENDANCE_DROP_CLASS (window)",
                                Cardinality(Attended(win)), Cardinality(win))
                /\ AlertReports(n, "ATTENDANCE_DROP_CLASS (daily)",
                                Cardinality(Attended(day)), Cardinality(day))
                /\ csv_pc = "L138" =>
                      /\ Len(course_windows[e.course]) = Cardinality(win)
                      /\ course_windows[e.course][Cardinality(win)] = e.status
                      /\ daily_course_counts[<<e.course, e.local_dt \div 24>>][total]
                            = Cardinality(day)
                      /\ daily_course_counts[<<e.course, e.local_dt \div 24>>][e.status]
                            = Cardinality({i \in day : att_out[i].event.status = e.status})

\* C11 witness: the 10th event of the course, an absence, has logged the window
\* alert, the daily alert and the chronic-absence alert, in that order
C11_Witness ==
    /\ Len(att_out) = 10
    /\ csv_pc = "poll"
    /\ Len(att_out[10].alerts) = 3
    /\ att_out[10].alerts[1].rule = "ATTENDANCE_DROP_CLASS (window)"
    /\ att_out[10].alerts[2].rule = "ATTENDANCE_DROP_CLASS (daily)"
    /\ att_out[10].alerts[3].rule = "CHRONIC_ABSENCE_STUDENT"

(***************************************************************************)
(* SpecDaily: events of two courses over two local dates, enough of them    *)
(* for a daily rate to fall below the threshold and to recover              *)
(***************************************************************************)

MaxDailyEvents == 7

DailyMsgs ==
    {AttMsg(LocalZ(1, 9), Ann, Algebra, present),
     AttMsg(LocalZ(1, 9), Ann, Algebra, absent),
     AttMsg(LocalZ(2, 9), Ann, Algebra, absent),
     AttMsg(LocalZ(1, 9), Bob, Biology, present)}

DailyStep ==
    /\ Len(att_in) < MaxDailyEvents
    /\ \E m \in DailyMsgs : csv_consume(m)
    /\ UNCHANGED jsonVars

SpecDaily == Init /\ [][DailyStep]_vars

\* C12: the daily ATTENDANCE_DROP_CLASS alert is emitted on a valid event if
\* and only if, the event counted, (present + late) / total of its (course,
\* local date) is strictly below 0.85; an earlier alert of the same course and
\* date does not suppress it
C12_DailyAlertIff ==
    LET n == Len(att_out)
    IN  (n > 0 /\ att_out[n].diag = "ok") =>
            LET e == att_out[n].event
                day == EventsOfCourseDate(e.course, e.local_dt \div 24, n)
            IN  HasAlert(att_out[n], "ATTENDANCE_DROP_CLASS (daily)")
                    <=> Cardinality(Attended(day)) * 100 < 85 * Cardinality(day)

\* C12 witness: an absence and then six presences of Algebra on day 1; the
\* alert is logged on each of the first six events (rates 0/1 .. 5/6) and not
\* on the seventh (6/7)
C12_Witness ==
    /\ att_in = [i \in 1..7 |->
                    AttMsg(LocalZ(1, 9), Ann, Algebra, IF i = 1 THEN absent ELSE present)]
    /\ \A i \in 1..6 : HasAlert(att_out[i], "ATTENDANCE_DROP_CLASS (daily)")
    /\ ~HasAlert(att_out[7], "ATTENDANCE_DROP_CLASS (daily)")

(***************************************************************************)
(* SpecUnderfuel: training-day and rest-day meals of two local dates, with  *)
(* messages that are dropped in between                                     *)
(***************************************************************************)

MaxUnderfuelEvents == 8

\* a rest-day meal of 250 kcal at noon of local day 2
RestMeal == NutMsg(LocalZ(2, 12), 40, 40, 250, FALSE)

\* a training-day meal of 300 kcal at noon of local day 1
Lunch == NutMsg(LocalZ(1, 12), 40, 40, 300, TRUE)

\* Snack is a training-day meal of 200 kcal: 400 with itself, 450 with RestMeal,
\* 500 with Lunch
UnderfuelMsgs == {Snack, Lunch, RestMeal, Without(Snack, "ts")}

UnderfuelStep ==
    /\ Len(nut_in) < MaxUnderfuelEvents
    /\ \E m \in UnderfuelMsgs : json_consume(m)
    /\ UNCHANGED csvVars

SpecUnderfuel == Init /\ [][UnderfuelStep]_vars

\* the indices i <= n of the messages that were accepted as a meal
AcceptedMeals(n) == {i \in 1..n : nut_out[i].diag = "ok"}

\* the meal accepted last before message n
PreviousMeal(n) == CHOOSE i \in AcceptedMeals(n - 1) : \A j \in AcceptedMeals(n - 1) : j <= i

\* C13: UNDERFUEL_AFTER_WORKOUT is emitted on a nutrition event if and only if
\* the event has training_day true, at least 2 meals have been accepted so far,
\* the current one counted, and the kcal of the 2 most recently accepted meals
\* sum to strictly less than 500; the previous meal counts whatever its date or
\* training_day flag, and the first accepted meal never alerts
C13_UnderfuelIff ==
    LET n == Len(nut_out)
    IN  (n > 0 /\ nut_out[n].diag = "ok") =>
            LET e == nut_out[n].event
                fired == HasAlert(nut_out[n], "UNDERFUEL_AFTER_WORKOUT")
            IN  /\ AcceptedMeals(n) = {n} => ~fired
                /\ fired <=> /\ e.training_day
                             /\ Cardinality(AcceptedMeals(n)) >= 2
                             /\ e.kcal + nut_out[PreviousMeal(n)].event.kcal < 500

\* C13 witness: a rest-day meal of day 2, a dropped message, then a
\* training-day meal of day 1: 250 + 200 kcal and the alert; the same meal
\* after Lunch (500 kcal) did not alert, nor did Lunch as the first meal
C13_Witness ==
    /\ nut_in = <<Lunch, Snack, RestMeal, Without(Snack, "ts"), Snack>>
    /\ ~HasAlert(nut_out[1], "UNDERFUEL_AFTER_WORKOUT")
    /\ ~HasAlert(nut_out[2], "UNDERFUEL_AFTER_WORKOUT")
    /\ ~HasAlert(nut_out[3], "UNDERFUEL_AFTER_WORKOUT")
    /\ nut_out[4].diag = "skipped"
    /\ HasAlert(nut_out[5], "UNDERFUEL_AFTER_WORKOUT")

(***************************************************************************)
(* SpecZone: both consumers fed with the same instants written with the     *)
(* suffix Z and with the offset +00:00                                      *)
(***************************************************************************)

MaxZoneEvents == 4

\* UTC instants: 04:00Z of 2025-10-26 (local midnight), 03:00Z of the next day
\* (23:00 of the local day before), and the hours before and at the end of
\* daylight time, 05:00Z and 06:00Z of 2025-11-02 (both 01:00 local)
ZoneInstants == {4, 27, 7 * 24 + 5, 7 * 24 + 6}

ZoneStamps == {Iso(u, sfx) : u \in ZoneInstants, sfx \in {"Z", "+00:00"}}

CsvZoneStep ==
    /\ Len(att_in) + Len(nut_in) < MaxZoneEvents
    /\ \E ts \in ZoneStamps : csv_consume(AttMsg(ts, Ann, Algebra, present))
    /\ UNCHANGED jsonVars

JsonZoneStep ==
    /\ Len(att_in) + Len(nut_in) < MaxZoneEvents
    /\ \E ts \in ZoneStamps : json_consume(NutMsg(ts, 40, 40, 400, FALSE))
    /\ UNCHANGED csvVars

ZoneNext == CsvZoneStep \/ JsonZoneStep

SpecZone == Init /\ [][ZoneNext]_vars

\* of the messages in and the outcomes out of one consumer: two accepted
\* messages whose timestamps differ only in Z against +00:00 were normalised
\* to the same local date and the same local time
SameLocalTime(in, out) ==
    \A i, j \in 1..Len(out) :
        (/\ in[i].obj.ts.wall = in[j].obj.ts.wall
         /\ in[i].obj.ts.suffix = "Z"
         /\ in[j].obj.ts.suffix = "+00:00")
            => /\ out[i].diag = "ok"
               /\ out[j].diag = "ok"
               /\ out[i].event.local_dt = out[j].event.local_dt
               /\ out[i].event.local_date = out[j].event.local_date

\* C14: a timestamp ending in Z and the same string with +00:00 in place of Z
\* normalise to the identical local date and local time, in parse_ts_to_local
\* and in parse_ts_utc_to_local
C14_ZuluEqualsZeroOffset ==
    /\ SameLocalTime(att_in, att_out)
    /\ SameLocalTime(nut_in, nut_out)

\* C14 witness: the csv consumer has normalised 06:00Z of 2025-11-02 in both
\* spellings to 01:00 of local day 7, the json consumer 03:00Z of 2025-10-27
\* to 23:00 of local day 0
C14_Witness ==
    /\ att_in = <<AttMsg(Iso(7 * 24 + 6, "Z"), Ann, Algebra, present),
                  AttMsg(Iso(7 * 24 + 6, "+00:00"), Ann, Algebra, present)>>
    /\ att_out[1].event.local_dt = 7 * 24 + 1
    /\ att_out[2].event.local_dt = 7 * 24 + 1
    /\ nut_in = <<NutMsg(Iso(27, "+00:00"), 40, 40, 400, FALSE),
                  NutMsg(Iso(27, "Z"), 40, 40, 400, FALSE)>>
    /\ nut_out[1].event.local_dt = 23
    /\ nut_out[2].event.local_date = 0

(***************************************************************************)
(* SpecExit: both consumers statement by statement, with the two ways out   *)
(* of the consume loop: the shutdown signal, and an exception raised by the *)
(* transport while main waits for a message (csv line 198, json line 161),  *)
(* which `except Exception` catches (csv line 204, json line 172).  Either  *)
(* way the `finally` clause closes the consumer and main returns.           *)
(***************************************************************************)

\* mutant of csv_transport_error: the loop is left without the `finally` clause
csv_transport_error_unclosed ==
    /\ csv_pc = "poll"
    /\ csv_pc' = "closed"
    /\ UNCHANGED <<csvVars, csv_frame, jsonVars, json_pc, json_frame, closed>>

\* lines 198, 204-208: the iteration over the consumer raises
csv_transport_error ==
    /\ csv_pc = "poll"
    /\ csv_pc' = "closed"
    /\ closed' = [closed EXCEPT !["csv"] = @ + 1]
    /\ UNCHANGED <<csvVars, csv_frame, jsonVars, json_pc, json_frame>>

\* lines 161, 172-176: consumer.poll raises
json_transport_error ==
    /\ json_pc = "poll"
    /\ json_pc' = "closed"
    /\ closed' = [closed EXCEPT !["json"] = @ + 1]
    /\ UNCHANGED <<jsonVars, json_frame, csvVars, csv_pc, csv_frame>>

MaxExitEvents == 2

CsvExitReceive ==
    /\ Len(att_in) < MaxExitEvents
    /\ \E m \in CsvShutdownMsgs : csv_receive(m)

JsonExitReceive ==
    /\ Len(nut_in) < MaxExitEvents
    /\ \E m \in JsonShutdownMsgs : json_receive(m)

ExitNext ==
    \/ CsvExitReceive
    \/ csv_step_parse
    \/ csv_step_window
    \/ csv_step_total
    \/ csv_step_status
    \/ csv_step_rate_rules
    \/ csv_step_late
    \/ csv_step_absence
    \/ csv_step_chronic
    \/ csv_interrupt
    \/ csv_transport_error
    \/ JsonExitReceive
    \/ json_step_parse
    \/ json_step_recent
    \/ json_step_total
    \/ json_step_rules
    \/ json_step_goal
    \/ json_step_goal_log
    \/ json_interrupt
    \/ json_transport_error

SpecExit == Init /\ [][ExitNext]_vars

\* a consumer that has left its loop has been closed once, one that has not
\* has not been closed
ClosedOnceOnExit ==
    /\ closed["csv"] = (IF csv_pc = "closed" THEN 1 ELSE 0)
    /\ closed["json"] = (IF json_pc = "closed" THEN 1 ELSE 0)

\* a step from a state in which a consumer has left its loop hands it no
\* message, runs no statement of process_message and closes nothing again
NothingAfterExit ==
    /\ csv_pc = "closed" =>
          /\ UNCHANGED <<csvVars, csv_pc, csv_frame>>
          /\ closed'["csv"] = closed["csv"]
    /\ json_pc = "closed" =>
          /\ UNCHANGED <<jsonVars, json_pc, json_frame>>
          /\ closed'["json"] = closed["json"]

\* C15: on every exit from the consume loop of either consumer, by the shutdown
\* signal or by an exception of the transport, the consumer is closed exactly
\* once, and no message is processed afterwards
C15_ClosedOnceThenNothing == []ClosedOnceOnExit /\ [][NothingAfterExit]_vars

\* C15 witness: the csv consumer left its loop inside process_message, after
\* the window append of its second message, the json consumer while waiting
\* for its first; each was closed once
C15_Witness ==
    /\ csv_pc = "closed"
    /\ json_pc = "closed"
    /\ closed = [c \in {"csv", "json"} |-> 1]
    /\ Len(att_in) = 2
    /\ Len(att_out) = 2
    /\ att_out[1].diag = "ok"
    /\ Len(course_windows[Algebra]) = 2
    /\ daily_course_counts[<<Algebra, 1>>][total] = 1
    /\ nut_in = <<>>

(***************************************************************************)
(* SpecRoll: events of two courses, more of them than a window holds        *)
(***************************************************************************)

MaxRollEvents == 11

RollMsgs ==
    {AttMsg(LocalZ(1, 12), Ann, Algebra, present),
     AttMsg(LocalZ(1, 12), Ann, Algebra, absent),
     AttMsg(LocalZ(1, 12), Bob, Biology, late)}

RollStep ==
    /\ Len(att_in) < MaxRollEvents
    /\ \E m \in RollMsgs : csv_consume(m)
    /\ UNCHANGED jsonVars

SpecRoll == Init /\ [][RollStep]_vars

\* whether the outcome is that of a valid event of the course
IsEventOf(out, course) == out.diag = "ok" /\ out.event.course = course

\* the statuses of the valid events received for the course, in arrival order
StatusesOf(course) ==
    LET outs == SelectSeq(att_out, LAMBDA o : IsEventOf(o, course))
    IN  [i \in 1..Len(outs) |-> outs[i].event.status]

\* the last n entries of a sequence, all of them when it has fewer
LastN(seq, n) ==
    IF Len(seq) <= n THEN seq ELSE SubSeq(seq, Len(seq) - n + 1, Len(seq))

\* the rolling window of every course holds the statuses of the last min(k, 10)
\* of the k valid events of the course, in arrival order
WindowsHoldLastEvents ==
    /\ DOMAIN course_windows = {c \in {Algebra, Biology} : StatusesOf(c) # <<>>}
    /\ \A c \in DOMAIN course_windows :
          /\ course_windows[c] = LastN(StatusesOf(c), 10)
          /\ Len(course_windows[c]) <= 10

\* in a step no window gets shorter, and a window of 10 that takes an event
\* gives up its oldest entry, the others moving up by one place
WindowsEvictOldest ==
    \A c \in DOMAIN course_windows :
        /\ c \in DOMAIN course_windows'
        /\ Len(course_windows'[c]) >= Len(course_windows[c])
        /\ (Len(course_windows[c]) = 10 /\ Len(StatusesOf(c)') > Len(StatusesOf(c)))
              => SubSeq(course_windows'[c], 1, 9) = Tail(course_windows[c])

\* C16: in every reachable state the rolling window of each course holds
\* exactly the statuses of the last min(k, N) valid events received for the
\* course, in arrival order; its length never exceeds N and never decreases,
\* and the entry evicted on overflow is the oldest
C16_WindowIsLastEvents == []WindowsHoldLastEvents /\ [][WindowsEvictOldest]_vars

\* C16 witness: Algebra received an absence, a presence and nine absences (a
\* Biology event in between is not counted); the first absence was evicted and
\* the presence is now the oldest entry
C16_Witness ==
    /\ Len(att_in) = 11
    /\ Len(StatusesOf(Algebra)) = 11
    /\ StatusesOf(Algebra)[1] = absent
    /\ course_windows[Algebra] = [i \in 1..10 |-> IF i = 1 THEN present ELSE absent]

(***************************************************************************)
(* SpecFrame: events of two courses, two local dates and two students, of   *)
(* every status                                                             *)
(***************************************************************************)

MaxFrameEvents == 3

FrameMsgs ==
    {AttMsg(LocalZ(d, 9), st, c, status) :
        d \in {1, 2}, st \in {Ann, Bob}, c \in {Algebra, Biology},
        status \in {present, late, absent}}

FrameStep ==
    /\ Len(att_in) < MaxFrameEvents
    /\ \E m \in FrameMsgs : csv_consume(m)
    /\ UNCHANGED jsonVars

SpecFrame == Init /\ [][FrameStep]_vars

\* the entry of key k is the same in the dicts d and e: absent in both, or
\* present in both with the same value
SameEntry(d, e, k) ==
    /\ k \in DOMAIN d <=> k \in DOMAIN e
    /\ k \in DOMAIN d => d[k] = e[k]

\* every entry but that of key k is the same in the dicts d and e
SameButEntry(d, e, k) ==
    \A x \in ((DOMAIN d) \cup (DOMAIN e)) \ {k} : SameEntry(d, e, x)

\* a step that processes a valid event for course c, local date d, student s
\* and status st adds 1 to total and to st of (c, d), and changes no window of
\* another course, no daily or late counter of another (course, date), and no
\* absence log of another student, nor that of s unless st is absent
FrameOfEvent ==
    (Len(att_out') = Len(att_out) + 1 /\ att_out'[Len(att_out')].diag = "ok") =>
        LET e == att_out'[Len(att_out')].event
            key_cd == <<e.course, e.local_dt \div 24>>
            before == Lookup(daily_course_counts, key_cd, ZeroCounts)
        IN  /\ daily_course_counts'[key_cd][total] = before[total] + 1
            /\ daily_course_counts'[key_cd][e.status] = before[e.status] + 1
            /\ SameButEntry(course_windows, course_windows', e.course)
            /\ SameButEntry(daily_course_counts, daily_course_counts', key_cd)
            /\ SameButEntry(late_per_course_day, late_per_course_day', key_cd)
            /\ SameButEntry(student_absences, student_absences', e.student)
            /\ e.status # absent =>
                  SameEntry(student_absences, student_absences', e.student)

\* C17: processing a valid attendance event for course c, local date d,
\* student s and status st increments total and the st counter of (c, d) by
\* exactly 1 each and leaves unchanged the rolling windows of all other courses,
\* the daily and late counters of every other (course, date) pair, and the
\* absence logs of every other student, and of s itself when st is not absent
C17_EventTouchesOnlyItsKeys == [][FrameOfEvent]_vars

\* C17 witness: after an absence of Bob in Biology on day 1 and a late arrival
\* of Ann in Algebra on day 2, a late arrival of Ann in Algebra on day 1 was
\* counted under (Algebra, 1) and left the other entries as they were
C17_Witness ==
    /\ att_in = <<AttMsg(LocalZ(1, 9), Bob, Biology, absent),
                  AttMsg(LocalZ(2, 9), Ann, Algebra, late),
                  AttMsg(LocalZ(1, 9), Ann, Algebra, late)>>
    /\ daily_course_counts[<<Algebra, 1>>][total] = 1
    /\ daily_course_counts[<<Algebra, 1>>][late] = 1
    /\ late_per_course_day = (<<Algebra, 2>> :> 1) @@ (<<Algebra, 1>> :> 1)
    /\ course_windows[Biology] = <<absent>>
    /\ student_absences = (Bob :> <<24 + 9>>)

(***************************************************************************)
(* Date rollover, over SpecLate: late and present events of Algebra on      *)
(* local days 1 and 2                                                       *)
(***************************************************************************)

\* C18: daily state restarts with the date key while the rolling window does
\* not: the first valid event of a course on a local date is evaluated against
\* daily counters and a late count that hold only that event, so that no
\* LATE_BURST_CLASS is emitted on it whatever the late events of other dates,
\* whereas the rolling window of the course holds the statuses of the events
\* of every date
C18_DailyRestartsWindowDoesNot ==
    LET n == Len(att_out)
    IN  (n > 0 /\ att_out[n].diag = "ok") =>
            LET e == att_out[n].event
                key_cd == <<e.course, e.local_dt \div 24>>
            IN  /\ course_windows[e.course] = LastN(StatusesOf(e.course), 10)
                /\ EventsOfCourseDate(e.course, e.local_dt \div 24, n) = {n} =>
                      /\ daily_course_counts[key_cd]
                            = [ZeroCounts EXCEPT ![total] = 1, ![e.status] = 1]
                      /\ Lookup(late_per_course_day, key_cd, 0)
                            = (IF e.status = late THEN 1 ELSE 0)
                      /\ ~HasAlert(att_out[n], "LATE_BURST_CLASS")
                      /\ AlertReports(n, "ATTENDANCE_DROP_CLASS (daily)",
                                      IF e.status = absent THEN 0 ELSE 1, 1)

\* C18 witness: three late events of Algebra on local day 1 (the second at
\* 22:00, which is the next day in UTC), the third with the late-burst alert,
\* then the first event of local day 2, late as well: counters of one event, no
\* alert, and a window of four
C18_Witness ==
    /\ att_in = <<AttMsg(LocalZ(1, 9), Ann, Algebra, late),
                  AttMsg(LocalZ(1, 22), Ann, Algebra, late),
                  AttMsg(LocalZ(1, 9), Ann, Algebra, late),
                  AttMsg(LocalZ(2, 9), Ann, Algebra, late)>>
    /\ HasAlert(att_out[3], "LATE_BURST_CLASS")
    /\ ~HasAlert(att_out[4], "LATE_BURST_CLASS")
    /\ late_per_course_day[<<Algebra, 2>>] = 1
    /\ daily_course_counts[<<Algebra, 2>>][total] = 1
    /\ course_windows[Algebra] = <<late, late, late, late>>

(***************************************************************************)
(* The boundary of the absence log, over SpecChronic: absences 6 days,      *)
(* exactly 7 days, 7 days and one hour, and 8 days after a first one, on    *)
(* the local clock                                                          *)
(***************************************************************************)

\* the log after is the log before with the instant now appended and then a
\* front part cut off, every entry of which is strictly older than now - 7 days,
\* up to the first entry that is not
PrunedFromFront(before, after, now) ==
    LET all == Append(before, now)
    IN  \E k \in 0..(Len(all) - 1) :
           /\ after = SubSeq(all, k + 1, Len(all))
           /\ \A i \in 1..k : all[i] < now - 7 * 24
           /\ all[k + 1] >= now - 7 * 24

\* a step that processes an absence: the log is pruned from the front by the
\* strict comparison, and when it held an entry of exactly 7 days before, that
\* entry is still in it and CHRONIC_ABSENCE_STUDENT is emitted with a count that
\* includes it
BoundaryKept ==
    (/\ Len(att_out') = Len(att_out) + 1
     /\ att_out'[Len(att_out')].diag = "ok"
     /\ att_out'[Len(att_out')].event.status = absent) =>
        LET e == att_out'[Len(att_out')].event
            before == Lookup(student_absences, e.student, <<>>)
            after == student_absences'[e.student]
            a == att_out'[Len(att_out')].alerts
        IN  /\ PrunedFromFront(before, after, e.local_dt)
            /\ (\E i \in 1..Len(before) : before[i] = e.local_dt - 7 * 24) =>
                  /\ \E j \in 1..(Len(after) - 1) : after[j] = e.local_dt - 7 * 24
                  /\ \E k \in 1..Len(a) :
                        /\ a[k].rule = "CHRONIC_ABSENCE_STUDENT"
                        /\ a[k].absences = Len(after)

\* C19: the 7-day boundary of the absence log is inclusive: when an absence is
\* processed, an earlier absence of the same student of exactly 7 days before
\* is retained and counted toward CHRONIC_ABSENCE_STUDENT, and only entries
\* strictly older than (instant - 7 days) at the front of the log are removed
C19_BoundaryInclusive == [][BoundaryKept]_vars

\* C19 witness: Ann absent at noon of day 1 and at noon of day 8, exactly 7
\* days later on the local clock: the alert counts both; an absence one hour
\* later has pruned the first
C19_Witness ==
    /\ att_in = <<AttMsg(LocalZ(1, 12), Ann, Algebra, absent),
                  AttMsg(LocalZ(8, 12), Ann, Algebra, absent),
                  AttMsg(LocalZ(8, 13), Ann, Algebra, absent)>>
    /\ att_out[2].alerts[Len(att_out[2].alerts)]
          = [rule |-> "CHRONIC_ABSENCE_STUDENT", student |-> Ann, absences |-> 2]
    /\ student_absences[Ann] = <<8 * 24 + 12, 8 * 24 + 13>>

(***************************************************************************)
(* The PROTEIN_GOAL latch, over SpecGoal: meals of two local dates around   *)
(* the cutoff hour, in any order                                            *)
(***************************************************************************)

\* the indices i <= n of the meals accepted for the local date
MealsOfDate(local_date, n) ==
    {i \in AcceptedMeals(n) : nut_out[i].event.local_dt \div 24 = local_date}

RECURSIVE SumProtein(_)
SumProtein(meals) ==
    IF meals = {} THEN 0
    ELSE LET i == CHOOSE x \in meals : TRUE
         IN  nut_out[i].event.protein_g + SumProtein(meals \ {i})

\* meal i came at or after 20:00 local with the protein of its local date, the
\* meal counted, at 160 g or more
GoalQualifies(i) ==
    /\ (nut_out[i].event.local_dt % 24) >= 20
    /\ SumProtein(MealsOfDate(nut_out[i].event.local_dt \div 24, i)) >= 160

CountedStatuses(counts) == counts[present] + counts[late] + counts[absent]

\* the key (course, local_date) of the event that process_message holds
FrameKey == <<csv_frame.course, csv_frame.local_date>>

\* when control is at the daily rule, the entry that the rule reads exists and
\* its total is not 0, so attendance_rate_daily does not return its default
DailyRuleHasTotal ==
    csv_pc = "L138" =>
        /\ FrameKey \in DOMAIN daily_course_counts
        /\ daily_course_counts[FrameKey][total] >= 1

C22_AbsencesPerStudentAcrossCourses ==
    /\ \A st \in DOMAIN student_absences :
          Len(student_absences[st]) = Cardinality(AbsencesOf(st, Len(att_out)))
    /\ \A n \in 1..Len(att_out) :
          (att_out[n].diag = "ok" /\ att_out[n].event.status = absent) =>
              /\ HasAlert(att_out[n], "CHRONIC_ABSENCE_STUDENT")
                    <=> Cardinality(AbsencesOf(att_out[n].event.student, n)) >= 2
              /\ \A k \in 1..Len(att_out[n].alerts) :
                    att_out[n].alerts[k].rule = "CHRONIC_ABSENCE_STUDENT" =>
                        att_out[n].alerts[k].absences
                            = Cardinality(AbsencesOf(att_out[n].event.student, n))

\* C22 witness: Ann absent in Algebra on day 1, Bob absent in Algebra on day 1
\* (no alert: another student), Ann absent in Biology on day 2 (alert, 2
\* absences)
C22_Witness ==
    /\ att_in = <<AttMsg(LocalZ(1, 9), Ann, Algebra, absent),
                  AttMsg(LocalZ(1, 9), Bob, Algebra, absent),
                  AttMsg(LocalZ(2, 9), Ann, Biology, absent)>>
    /\ ~HasAlert(att_out[2], "CHRONIC_ABSENCE_STUDENT")
    /\ HasAlert(att_out[3], "CHRONIC_ABSENCE_STUDENT")
    /\ student_absences = (Ann :> <<24 + 9, 48 + 9>>) @@ (Bob :> <<24 + 9>>)

(***************************************************************************)
(* The two late counters, statement by statement: events of two courses on  *)
(* two local dates, late or absent, and one of an unknown status            *)
(***************************************************************************)

MaxCounterEvents == 3

CounterMsgs ==
    {AttMsg(LocalZ(d, 9), Ann, c, st) :
        d \in {1, 2}, c \in {Algebra, Biology}, st \in {late, absent}}
    \cup {With(AbsentRaw, "status", Str(<<"e", "x", "c", "u", "s", "e", "d">>))}

CounterReceive ==
    /\ Len(att_in) < MaxCounterEvents
    /\ \E m \in CounterMsgs : csv_receive(m)

CounterNext ==
    \/ CounterReceive
    \/ csv_step_parse
    \/ csv_step_window
    \/ csv_step_total
    \/ csv_step_status
    \/ csv_step_rate_rules
    \/ csv_step_late
    \/ csv_step_absence
    \/ csv_step_chronic
    \/ csv_interrupt

SpecCounter == Init /\ [][CounterNext]_vars

\* the (course, date) keys of either counter
CounterKeys == (DOMAIN daily_course_counts) \cup (DOMAIN late_per_course_day)

\* daily_course_counts[k]["late"] less late_per_course_day[k], each read with
\* the default of its defaultdict
LateGap(k) == Lookup(daily_course_counts, k, ZeroCounts)[late]
                  - Lookup(late_per_course_day, k, 0)

\* control is after line 135 and before line 156 of a call for a late event
LateCountPending ==
    /\ csv_pc \in {"L138", "L155"}
    /\ csv_frame.status = late

MaxLatchEvents == 3

LatchMsgs == GoalMsgs \cup {Without(Snack, "ts")}

LatchReceive ==
    /\ Len(nut_in) < MaxLatchEvents
    /\ \E m \in LatchMsgs : json_receive(m)

LatchNext ==
    \/ LatchReceive
    \/ json_step_parse
    \/ json_step_recent
    \/ json_step_total
    \/ json_step_rules
    \/ json_step_goal
    \/ json_step_goal_log
    \/ json_interrupt

SpecLatch == Init /\ [][LatchNext]_vars

\* the local dates the consumer has a total or a flag for
LatchDates == (DOMAIN daily_totals) \cup (DOMAIN protein_goal_announced)

\* protein_goal_announced[D], read with the default of defaultdict(bool)
Announced(D) == Lookup(protein_goal_announced, D, FALSE)

\* once true, a flag stays true
LatchStaysSet ==
    \A D \in DOMAIN protein_goal_announced :
        protein_goal_announced[D] =>
            /\ D \in DOMAIN protein_goal_announced'
            /\ protein_goal_announced'[D]

\* control is after line 140 and before the logger.warning of line 141, in a
\* call for a meal of date D
GoalLogPending(D) ==
    /\ json_pc = "L141"
    /\ json_frame.local_date = D

\* the dates whose flag is set with no PROTEIN_GOAL line logged
AnnouncedUnlogged == {D \in LatchDates : Announced(D) /\ GoalAlertsOf(D) = {}}

====
